---- MODULE Spec2Model ----
(***************************************************************************)
(* MeTube Manager: the feed polling engine of                              *)
(* custom_components/metube_manager/__init__.py (_metube_poll_feeds), its  *)
(* persisted document, and the environment it talks to (feeds, the yt-dlp  *)
(* playlist listing, the MeTube /add endpoint, the Home Assistant store).  *)
(*                                                                         *)
(* Text is a sequence of one-character strings, so that strip() and        *)
(* rstrip("/") are computed and not assumed.  Python's None (a missing     *)
(* key) is the value None below.                                           *)
(***************************************************************************)
EXTENDS Integers, Sequences, FiniteSets, TLC

\* ------------------------------------------------------------------ bounds
\* Poll cycles started in one behaviour.
MaxCycles == 2
\* Changes of the environment (feeds' answers, configuration) in one behaviour.
MaxChanges == 1
\* Seconds in the hour of the trigger model (minute 0, second 0 is second 0).
HourTicks == 5
\* Poll cycles the trigger model lets run at once before it stops counting.
MaxInFlight == 3
\* Elements of rss_feeds in the entries the normalizer is run on.
MaxRaw == 3

\* ------------------------------------------------------------------- text
None == <<"<None>">>
WS == {" ", "\t", "\n"}

RECURSIVE lstrip(_)
lstrip(s) ==
    IF s = <<>> THEN <<>>
    ELSE IF Head(s) \in WS THEN lstrip(Tail(s)) ELSE s

RECURSIVE rstrip(_)
rstrip(s) ==
    IF s = <<>> THEN <<>>
    ELSE IF s[Len(s)] \in WS THEN rstrip(SubSeq(s, 1, Len(s) - 1)) ELSE s

\* str.strip()
strip(s) == rstrip(lstrip(s))

\* str.rstrip("/")
RECURSIVE rstripSlash(_)
rstripSlash(s) ==
    IF s = <<>> THEN <<>>
    ELSE IF s[Len(s)] = "/" THEN rstripSlash(SubSeq(s, 1, Len(s) - 1)) ELSE s

\* Python's `x or ""` on an optional string.
OrEmpty(x) == IF x = None THEN <<>> ELSE x

\* Python's `a or b` on two optional strings.
OrStr(a, b) == IF a = None \/ a = <<>> THEN b ELSE a

\* ---------------------------------------------------------------- universe
\* Feed URLs, a playlist reference, video links as the feeds list them.
FeedF == <<"f">>
FeedG == <<"g">>
PlayP == <<"p">>
\* "https://www.youtube.com/watch?v=" abbreviated to two characters.
WatchPrefix == <<"w", "=">>
VidA == WatchPrefix \o <<"a">>
VidB == WatchPrefix \o <<"b">>
VidAPadded == <<" ">> \o VidA \o <<"\n">>
Blank == <<" ", "\t">>
Videos == {VidA, VidB}
FeedUrls == {FeedF, FeedG}

\* HTTP statuses.  NoAnswer stands for a transport failure (timeout,
\* connection error), which aiohttp raises as an exception.
NoAnswer == 0
HttpOk == 200
HttpCreated == 201
\* What the MeTube /add endpoint may answer to one POST.
PostAnswers == {HttpOk, HttpCreated, 503, NoAnswer}

\* -------------------------------------------------- const.py, normalizer
DEFAULT_QUALITY == "best"

\* A raw element of rss_feeds: a dict (keys url/name/backlog_playlist_url,
\* None when the key is missing), a legacy string (in url), or anything else.
RawDict(u, n, b) == [type |-> "dict", url |-> u, name |-> n, backlog |-> b]
RawStr(s) == [type |-> "str", url |-> s, name |-> None, backlog |-> None]
RawOther == [type |-> "other", url |-> None, name |-> None, backlog |-> None]

\* The value "no descriptor" of _metube_normalize_feed.
NoFeed == [url |-> <<>>, name |-> <<>>, backlog |-> <<>>]

\* A variant that leaves the name of a nameless element empty.
_metube_normalize_feed_unnamed(f) ==
    IF f.type = "dict" THEN
        LET url == strip(OrEmpty(f.url))
            name == strip(OrEmpty(f.name))
            backlog == strip(OrEmpty(f.backlog))
        IN IF url = <<>> THEN NoFeed
           ELSE [url |-> url, name |-> name, backlog |-> backlog]
    ELSE IF f.type = "str" /\ strip(f.url) # <<>> THEN
        [url |-> strip(f.url), name |-> <<>>, backlog |-> <<>>]
    ELSE NoFeed

\* _metube_normalize_feed: {url, name, backlog_playlist_url?} or nothing.
\* A missing backlog key reads as "" at its only use (feed.get(...) or "").
_metube_normalize_feed(f) ==
    IF f.type = "dict" THEN
        LET url == strip(OrEmpty(f.url))
            name == strip(OrStr(f.name, OrStr(url, <<>>)))
            backlog == strip(OrEmpty(f.backlog))
        IN IF url = <<>> THEN NoFeed
           ELSE [url |-> url, name |-> name, backlog |-> backlog]
    ELSE IF f.type = "str" /\ strip(f.url) # <<>> THEN
        [url |-> strip(f.url), name |-> strip(f.url), backlog |-> <<>>]
    ELSE NoFeed

\* feeds = [f for f in (_metube_normalize_feed(x) for x in raw_feeds) if f]
RECURSIVE NormalizeFeeds(_)
NormalizeFeeds(raw) ==
    IF raw = <<>> THEN <<>>
    ELSE LET n == _metube_normalize_feed(Head(raw))
         IN IF n = NoFeed THEN NormalizeFeeds(Tail(raw))
            ELSE <<n>> \o NormalizeFeeds(Tail(raw))

\* ------------------------------------------------------------ environment
\* What a GET of a feed URL yields: a status (NoAnswer: the request raises),
\* whether feedparser.parse returns (it raises otherwise), and the link of
\* each entry in the feed's own order (None: the entry has no link).
Resp(st, ok, ls) == [status |-> st, parses |-> ok, links |-> ls]

\* What yt-dlp's extract_info yields for the playlist reference: whether the
\* executor job raises (yt_dlp cannot be imported), whether extraction raises
\* inside the function, and the flat entries (id, url; None when missing).
Listing(jobOk, extractOk, es) == [job_ok |-> jobOk, extract_ok |-> extractOk, entries |-> es]
PlEntry(id, url) == [falsy |-> FALSE, id |-> id, url |-> url]
PlNoEntry == [falsy |-> TRUE, id |-> None, url |-> None]

World(rf, rg, pl) == [feed |-> (FeedF :> rf) @@ (FeedG :> rg), playlist |-> pl]

\* The environment at installation: both feeds and the playlist answer.
AllAnswer ==
    World(Resp(HttpOk, TRUE, <<VidAPadded, VidB>>),
          Resp(HttpOk, TRUE, <<VidB, None, Blank, VidAPadded>>),
          Listing(TRUE, TRUE, <<PlEntry(<<"a">>, None), PlNoEntry, PlEntry(None, VidB)>>))

Worlds ==
    { AllAnswer,
      World(Resp(500, TRUE, <<>>),
            Resp(HttpOk, TRUE, <<VidA, VidA, VidB>>),
            Listing(TRUE, TRUE, <<PlEntry(None, None), PlEntry(<<"b">>, VidA)>>)),
      World(Resp(HttpOk, TRUE, <<VidA>>),
            Resp(NoAnswer, TRUE, <<>>),
            Listing(FALSE, TRUE, <<>>)),
      World(Resp(HttpOk, FALSE, <<>>),
            Resp(203, TRUE, <<VidB>>),
            Listing(TRUE, FALSE, <<PlEntry(<<"a">>, None)>>)) }

\* ---------------------------------------------------------- configuration
\* entry.options / entry.data: a missing key is None ("" for quality and <<>>
\* for rss_feeds, which the code's `or` chains cannot tell from a missing key).
CfgDict(fs, url, q) == [rss_feeds |-> fs, metube_url |-> url, quality |-> q]
EmptyDict == CfgDict(<<>>, None, "")
Entry(o, d) == [exists |-> TRUE, options |-> o, data |-> d]
NoEntry == [exists |-> FALSE, options |-> EmptyDict, data |-> EmptyDict]

\* The entry at installation: two channels, f with an RSS backlog, g with a
\* playlist backlog.
TwoChannels ==
    Entry(CfgDict(<<RawDict(FeedF, <<"F">>, FeedF), RawDict(FeedG, None, PlayP)>>,
                  <<"m", "/">>, "720p"), EmptyDict)

Configs ==
    { TwoChannels,
      \* only g is left, no backlog, values held in entry.data
      Entry(EmptyDict, CfgDict(<<RawStr(<<" ">> \o FeedG), RawOther, RawDict(None, None, FeedF)>>,
                               <<"m">>, "")),
      \* f with a playlist backlog
      Entry(CfgDict(<<RawDict(FeedF, None, PlayP)>>, <<"m">>, "best"), EmptyDict),
      \* no feed left
      Entry(CfgDict(<<RawDict(Blank, None, None)>>, <<"m">>, "best"), EmptyDict),
      \* no MeTube URL
      Entry(CfgDict(<<RawDict(FeedF, None, None)>>, <<"/">>, "best"), EmptyDict),
      NoEntry }

\* ------------------------------------------------------ persisted document
\* {"urls": [...], "backlog_done": [...], "feed_stats": {url: {...}}}
Doc(u, b, s) == [urls |-> u, backlog_done |-> b, feed_stats |-> s]
NoStats == [k \in {} |-> 0]
\* store.async_load() of a store never written returns None; `or {}`.
EmptyDoc == Doc({}, {}, NoStats)

\* ------------------------------------------------------------------ state
VARIABLES
    config,        \* the config entry as hass.config_entries holds it
    world,         \* what the feeds and the playlist listing answer now
    store,         \* the durable document of the entry's Store
    stored,        \* whether the Store has ever been written
    coordinator,   \* DataUpdateCoordinator.data: the stats the sensors read
    pc,            \* where the poll cycle stands ("idle": none is running)
    feeds,         \* the cycle's normalized feed list
    add_url,       \* base_url + "/add"
    quality,       \* the cycle's quality
    seen,          \* the cycle's in-memory sets and stats
    backlog_done,
    feed_stats,
    i,             \* index of the feed the current pass is at
    items,         \* entries of the current feed still to go through
    sent,          \* backlog_sent / rss_sent of the current feed
    now,           \* the clock datetime.now() reads: one tick per cycle
    \* history, read by the properties only
    changes,       \* changes of the environment so far
    quiet,         \* cycles started since the last change, up to 2
    doc0,          \* the durable document when the cycle started
    ended,         \* how the last cycle ended
    cycle,         \* what the running (or last) cycle did
    step,          \* what the current (or last) feed step did
    posted,        \* POSTs issued per video URL since installation
    failed,        \* video URLs whose POST was not answered 200 or 201
    runs,          \* cycles in which the backlog step ran, per feed URL
    pruned,        \* whether Prune has ever triggered
    reconfigured,  \* whether the configuration has ever been edited
    prev,          \* the cycle before: "saved", "unsaved" (its save failed) or "none"
    lost,          \* video URLs POSTed in a cycle that was cut short
    retried,       \* video URLs POSTed again after a failed POST, Prune apart
    \* the triggers of the entry (lines 365-375)
    clock,              \* seconds into the hour
    hour_event,         \* the time-change event of second 0 is being dispatched
    first_poll_cancel,  \* seconds until the first poll, NoTimer when none is pending
    remove_metube_poll, \* whether the hourly listener is registered
    in_flight,          \* poll cycles started and not yet returned
    \* the config flow of the initial step (config_flow.py)
    user_input,         \* what the form was submitted with, None before that
    site,               \* what the connection test and the channel lookup are answered
    flow_result         \* the FlowResult of async_step_user

prog == <<pc, feeds, add_url, quality, seen, backlog_done, feed_stats, i, items, sent>>
env == <<config, world, changes>>
disk == <<store, stored>>
marks == <<runs, pruned, reconfigured, prev, lost, retried>>
hist == <<doc0, ended, cycle, step, posted, failed, marks>>
triggers == <<clock, hour_event, first_poll_cancel, remove_metube_poll, in_flight>>
flow == <<user_input, site, flow_result>>
vars == <<prog, env, disk, coordinator, now, quiet, hist, triggers, flow>>

\* async_call_later(hass, 2.0, ...)
FirstPollDelay == 2
\* No first poll is pending: it ran, or the entry was unloaded.
NoTimer == -1

\* One POST as the endpoint saw it.
Post(link, q, st) == [url |-> link, quality |-> q, format |-> "mp4", status |-> st]

NoStep ==
    [kind |-> "none", feed |-> <<>>, state |-> "none", seen0 |-> {}, total0 |-> 0,
     source |-> <<>>, posts |-> <<>>]

NoCycle ==
    [loaded |-> "none", pruned |-> FALSE, prune_saved |-> FALSE, after_prune |-> EmptyDoc,
     writes |-> 0, fetched |-> <<>>, failed_fetch |-> {}, accepted |-> [v \in {} |-> 0],
     stats0 |-> NoStats, urls |-> {}, failed |-> {},
     dup |-> {}, credits |-> {}, owner |-> [v \in {} |-> 0], backlog_urls |-> {},
     backlog_ok |-> [v \in {} |-> 0], incr_ok |-> [v \in {} |-> 0]]

\* The state at installation, the entry apart.
Installed ==
    /\ world = AllAnswer
    /\ store = EmptyDoc
    /\ stored = FALSE
    /\ coordinator = NoStats
    /\ pc = "idle"
    /\ feeds = <<>>
    /\ add_url = <<>>
    /\ quality = ""
    /\ seen = {}
    /\ backlog_done = {}
    /\ feed_stats = NoStats
    /\ i = 1
    /\ items = <<>>
    /\ sent = 0
    /\ now = 0
    /\ changes = 0
    /\ quiet = 0
    /\ doc0 = EmptyDoc
    /\ ended = "never"
    /\ cycle = NoCycle
    /\ step = NoStep
    /\ posted = [v \in Videos |-> 0]
    /\ failed = {}
    /\ runs = [f \in FeedUrls |-> 0]
    /\ pruned = FALSE
    /\ reconfigured = FALSE
    /\ prev = "none"
    /\ lost = {}
    /\ retried = {}
    /\ clock = 0
    /\ hour_event = FALSE
    /\ first_poll_cancel = NoTimer
    /\ remove_metube_poll = FALSE
    /\ in_flight = 0

\* The form of the initial step, before it is opened.
NoInput ==
    [submitted |-> FALSE, metube_url |-> None, quality |-> "", channel_name |-> None,
     fetch_backlog |-> "absent"]

NoInfo ==
    [raises |-> FALSE, falsy |-> TRUE, channel_id |-> None, id |-> None,
     uploader_id |-> None, channel |-> None, uploader |-> None, title |-> None,
     first |-> None]

NoSite == [status |-> NoAnswer, info |-> NoInfo]

NoResult == [type |-> "none", errors |-> [k \in {} |-> ""], asked |-> None, looked_up |-> None]

\* The flow has long ended when the entry polls.
FlowOver == user_input = NoInput /\ site = NoSite /\ flow_result = NoResult

Init == config = TwoChannels /\ Installed /\ FlowOver

\* ---------------------------------------------------------------- helpers
\* A variant that forgets the total recorded before.
_metube_update_feed_stats_reset(stats, feed_url, sent_count) ==
    (feed_url :> [last_fetched |-> now, total_sent |-> sent_count]) @@ stats

\* _metube_update_feed_stats: last_fetched is now, total_sent grows by
\* sent_count from the previous total (0 for a feed without stats).
_metube_update_feed_stats(stats, feed_url, sent_count) ==
    LET total == (IF feed_url \in DOMAIN stats THEN stats[feed_url].total_sent ELSE 0)
                 + sent_count
    IN (feed_url :> [last_fetched |-> now, total_sent |-> total]) @@ stats

\* A variant that takes 200 alone for success.
AcceptedOnlyOk(st) == st = HttpOk

\* `if add_resp.status in (200, 201)`
Accepted(st) == st \in {HttpOk, HttpCreated}

\* A variant that looks the link up in the set as it was loaded.
IsNewSinceLoad(link, seenSet) == link # <<>> /\ link \notin doc0.urls

\* A variant that does not look the link up in the seen set.
IsNewUnchecked(link, seenSet) == link # <<>>

\* `if not link or link in seen: continue`, negated.
IsNew(link, seenSet) == link # <<>> /\ link \notin seenSet

\* A variant that does not trim the link.
EntryLinkUntrimmed(item) == OrEmpty(item)

\* The link of a feed entry: (item.get("link") or "").strip()
EntryLink(item) == strip(OrEmpty(item))

\* _yt_dlp_playlist_video_urls: the watch URL of each entry with an id, else
\* the entry's url if it has one; [] when extraction raises.
RECURSIVE PlaylistUrls(_)
PlaylistUrls(es) ==
    IF es = <<>> THEN <<>>
    ELSE LET e == Head(es)
             rest == PlaylistUrls(Tail(es))
         IN IF e.falsy THEN rest
            ELSE IF OrEmpty(e.id) # <<>> THEN <<WatchPrefix \o e.id>> \o rest
            ELSE IF OrEmpty(e.url) # <<>> THEN <<e.url>> \o rest
            ELSE rest

_yt_dlp_playlist_video_urls(listing) ==
    IF listing.extract_ok THEN PlaylistUrls(listing.entries) ELSE <<>>

\* A variant that saves the URLs this cycle has added, not the whole set.
FinalDocNewUrls == Doc(cycle.urls, backlog_done, feed_stats)

\* A variant that saves the stats as they were loaded.
FinalDocOldStats == Doc(seen, backlog_done, doc0.feed_stats)

\* The document async_save is handed at the end of a cycle.
FinalDoc == Doc(seen, backlog_done, feed_stats)

Feed == feeds[i]
\* A variant that looks at the marker for an RSS backlog only.
EligibleBySource ==
    Feed.backlog # <<>> /\ (Feed.url \notin backlog_done \/ Feed.backlog # Feed.url)

\* `if backlog_playlist and feed_url not in backlog_done` (line 197)
Eligible == Feed.backlog # <<>> /\ Feed.url \notin backlog_done

Bump(f, k) == (k :> ((IF k \in DOMAIN f THEN f[k] ELSE 0) + 1)) @@ f
\* The same for a history count, which stops at "more than once".
Tally(f, k) == (k :> (IF k \in DOMAIN f /\ f[k] > 0 THEN 2 ELSE 1)) @@ f

\* Start of a feed step, as the history keeps it.
BeginStep(kind, state, source) ==
    [kind |-> kind, feed |-> Feed.url, state |-> state, seen0 |-> seen,
     total0 |-> IF Feed.url \in DOMAIN feed_stats THEN feed_stats[Feed.url].total_sent ELSE 0,
     source |-> source, posts |-> <<>>]

\* A variant with one loop: the feed's incremental fetch follows its backlog.
AfterBacklogStepSameFeed == i' = i /\ pc' = "incr"

\* The feed after feeds[i] in the backlog pass, or the start of the
\* incremental pass.
AfterBacklogStep ==
    IF i < Len(feeds) THEN i' = i + 1 /\ pc' = "backlog"
    ELSE i' = 1 /\ pc' = "incr"

\* The feed after feeds[i] in the incremental pass, or Persist.
AfterIncrStep ==
    IF i < Len(feeds) THEN i' = i + 1 /\ pc' = "incr"
    ELSE i' = i /\ pc' = "persist"

\* The feed whose step came to a link first in this cycle, as the history
\* keeps it.
Own(f, link, u) == IF link \in DOMAIN f THEN f ELSE (link :> u) @@ f

\* `continue`: the entry is empty or already seen.
SkipEntry(link) ==
    /\ items' = Tail(items)
    /\ cycle' = IF link = <<>> THEN cycle
                ELSE [cycle EXCEPT !.owner = Own(@, link, Feed.url)]
    /\ UNCHANGED <<seen, sent, posted, failed, step, retried>>

\* A variant that leaves the seen set as it is.
MarkSeenNot(s, link) == s

\* seen.add(link) (lines 215, 246, 319)
MarkSeen(s, link) == s \cup {link}

\* A variant whose loop over the entries ends at a POST that fails.
RestAfterFailedPost(st) == IF st \in {HttpOk, HttpCreated} THEN Tail(items) ELSE <<>>

\* The `try` of each POST is inside the loop over the entries (lines 216-226,
\* 247-269, 321-343): whatever the answer, the loop goes on with the entries
\* that are left.
RestAfterPost(st) == Tail(items)

\* seen.add(link), then the POST of {url, quality, format: mp4} to add_url,
\* answered `st`; a transport error is caught and logged like a bad status.
SubmitEntry(link, st) ==
    /\ items' = RestAfterPost(st)
    /\ seen' = MarkSeen(seen, link)
    /\ sent' = IF Accepted(st) THEN sent + 1 ELSE sent
    /\ posted' = Tally(posted, link)
    /\ failed' = IF Accepted(st) THEN failed ELSE failed \cup {link}
    /\ step' = [step EXCEPT !.posts = Append(@, Post(link, quality, st))]
    /\ retried' = IF link \in cycle.failed \/ (link \in failed /\ ~cycle.pruned)
                  THEN retried \cup {link} ELSE retried
    /\ LET answered_ok == st \in {200, 201}
           backlog == step.kind # "incremental"
       IN cycle' = [cycle EXCEPT
                    !.accepted = IF Accepted(st) THEN Bump(@, Feed.url) ELSE @,
                    !.urls = @ \cup {link},
                    !.failed = IF Accepted(st) THEN @ ELSE @ \cup {link},
                    !.dup = IF link \in cycle.urls THEN @ \cup {link} ELSE @,
                    !.credits = IF answered_ok THEN @ \cup {<<link, Feed.url>>} ELSE @,
                    !.owner = Own(@, link, Feed.url),
                    !.backlog_urls = IF backlog THEN @ \cup {link} ELSE @,
                    !.backlog_ok = IF backlog /\ answered_ok THEN Bump(@, Feed.url) ELSE @,
                    !.incr_ok = IF ~backlog /\ answered_ok THEN Bump(@, Feed.url) ELSE @]

\* ------------------------------------------------------------ environment
\* The feeds or the playlist answer differently from now on: between two
\* cycles, or between the backlog pass and the incremental pass of one.
ChangeWorld ==
    /\ pc = "idle" \/ (pc = "incr" /\ i = 1)
    /\ changes < MaxChanges
    /\ \E w \in Worlds \ {world} : world' = w
    /\ changes' = changes + 1
    /\ quiet' = 0
    /\ UNCHANGED <<prog, config, disk, coordinator, now, hist>>
    /\ UNCHANGED triggers
    /\ UNCHANGED flow

\* The user edits the entry; the running cycle, if any, has read its
\* configuration already, so the edit is seen by the next cycle.
EditConfig ==
    /\ pc = "idle"
    /\ changes < MaxChanges
    /\ \E c \in Configs \ {config} : config' = c
    /\ changes' = changes + 1
    /\ quiet' = 0
    /\ reconfigured' = TRUE
    /\ UNCHANGED <<prog, world, disk, coordinator, now>>
    /\ UNCHANGED <<doc0, ended, cycle, step, posted, failed, runs, pruned, prev, lost, retried>>
    /\ UNCHANGED triggers
    /\ UNCHANGED flow

\* ------------------------------------------------------ _metube_poll_feeds
\* options.get(CONF_QUALITY) or data.get(CONF_QUALITY) or DEFAULT_QUALITY
EffectiveQuality(entry) ==
    LET options == IF entry.options # EmptyDict THEN entry.options ELSE entry.data
    IN IF options.quality # "" THEN options.quality
       ELSE IF entry.data.quality # "" THEN entry.data.quality ELSE DEFAULT_QUALITY

\* The feeds of the entry as the cycle reads them (lines 136-140).
ConfiguredFeeds(entry) ==
    LET options == IF entry.options # EmptyDict THEN entry.options ELSE entry.data
        raw_feeds == IF options.rss_feeds # <<>> THEN options.rss_feeds
                     ELSE entry.data.rss_feeds
    IN NormalizeFeeds(raw_feeds)

\* base_url of line 140.
BaseUrl(entry) ==
    LET options == IF entry.options # EmptyDict THEN entry.options ELSE entry.data
    IN rstripSlash(OrStr(options.metube_url, OrStr(entry.data.metube_url, <<>>)))

\* A variant that polls without a MeTube URL.
GuardClausesFeedsOnly(found, base_url, fs) == ~found \/ fs = <<>>

\* The guard clauses (lines 133-135, 144-152): whether the cycle returns
\* before Load.
GuardClauses(found, base_url, fs) == ~found \/ base_url = <<>> \/ fs = <<>>

\* Entry of the cycle up to the guard clauses (lines 130-152).
Start ==
    /\ pc = "idle"
    /\ now < MaxCycles
    /\ now' = now + 1
    /\ quiet' = IF quiet < 2 THEN quiet + 1 ELSE 2
    /\ doc0' = store
    /\ cycle' = NoCycle
    /\ step' = NoStep
    /\ LET fs == ConfiguredFeeds(config)
           base_url == BaseUrl(config)
           q == EffectiveQuality(config)
       IN IF GuardClauses(config.exists, base_url, fs)
          THEN /\ ended' = "skipped"
               /\ UNCHANGED prog
          ELSE /\ ended' = "running"
               /\ pc' = "load"
               /\ feeds' = fs
               /\ add_url' = rstripSlash(base_url) \o <<"/", "a", "d", "d">>
               /\ quality' = q
               /\ seen' = {} /\ backlog_done' = {} /\ feed_stats' = NoStats
               /\ i' = 1 /\ items' = <<>> /\ sent' = 0
    /\ prev' = IF ended = "completed" THEN "saved"
               ELSE IF ended = "save_failed" THEN "unsaved" ELSE "none"
    /\ UNCHANGED <<env, disk, coordinator, posted, failed, runs, pruned, reconfigured, lost, retried>>
    /\ UNCHANGED triggers
    /\ UNCHANGED flow

\* A variant that subtracts the wrong way round.
removed_feed_urls_reversed(d, current_feed_urls) ==
    current_feed_urls \ (DOMAIN d.feed_stats \cup d.backlog_done)

\* removed_feed_urls of line 169: the feeds the document knows and the
\* configuration no longer has.
removed_feed_urls(d, current_feed_urls) ==
    (DOMAIN d.feed_stats \cup d.backlog_done) \ current_feed_urls

\* A variant of Prune that keeps the seen set.
PrunedSeenKept(urls) == urls

\* `seen = set()` of line 177.
PrunedSeen(urls) == {}

\* A variant that keeps the stats of the feeds that were removed.
PrunedStatsKeepAll(stats, current_feed_urls) == stats

\* feed_stats of line 175: the stats of the feeds still configured.
PrunedStats(stats, current_feed_urls) ==
    [k \in DOMAIN stats \cap current_feed_urls |-> stats[k]]

\* How `store.async_load()` and the three reads of lines 156-159 end: the
\* document is read (None of a store never written reads as EmptyDoc), the
\* load raises, or the read of one field raises on a malformed value.
LoadOutcomes == {"ok", "raises", "bad_urls", "bad_backlog_done", "bad_feed_stats"}

\* The names lines 157-159 have assigned when the handler of line 160 runs.
AssignedBefore(how) ==
    Doc(IF how \in {"bad_backlog_done", "bad_feed_stats"} THEN store.urls ELSE {},
        IF how = "bad_feed_stats" THEN store.backlog_done ELSE {},
        NoStats)

\* A variant whose handler keeps what was read before the failure.
LoadFallbackKeepRead(assigned) == assigned

\* The handler of lines 160-164 resets all three names.
LoadFallback(assigned) == EmptyDoc

LoadedDoc(how) == IF how = "ok" THEN store ELSE LoadFallback(AssignedBefore(how))

\* Load and the Prune computation (lines 156-177): the document is read, or
\* the read raises and all three start empty; data of feeds no longer
\* configured is dropped, and with it the whole seen set.
Load ==
    /\ pc = "load"
    /\ \E how \in LoadOutcomes :
        LET ok == how = "ok"
            d == LoadedDoc(how)
            current_feed_urls == {feeds[k].url : k \in 1..Len(feeds)}
            fs == PrunedStats(d.feed_stats, current_feed_urls)
            bd == d.backlog_done \cap current_feed_urls
        IN IF removed_feed_urls(d, current_feed_urls) # {}
           THEN /\ feed_stats' = fs
                /\ backlog_done' = bd
                /\ seen' = PrunedSeen(d.urls)
                /\ pc' = "prune_save"
                /\ pruned' = TRUE
                /\ UNCHANGED <<runs, reconfigured, prev, lost, retried>>
                /\ cycle' = [cycle EXCEPT !.loaded = IF ok THEN "ok" ELSE "failed",
                                          !.pruned = TRUE,
                                          !.after_prune = Doc({}, bd, fs),
                                          !.stats0 = fs]
           ELSE /\ feed_stats' = d.feed_stats
                /\ backlog_done' = d.backlog_done
                /\ seen' = d.urls
                /\ pc' = "backlog"
                /\ UNCHANGED marks
                /\ cycle' = [cycle EXCEPT !.loaded = IF ok THEN "ok" ELSE "failed",
                                          !.stats0 = d.feed_stats]
    /\ UNCHANGED <<feeds, add_url, quality, i, items, sent>>
    /\ UNCHANGED <<env, disk, coordinator, now, quiet>>
    /\ UNCHANGED <<doc0, ended, step, posted, failed>>
    /\ UNCHANGED triggers
    /\ UNCHANGED flow

\* A variant that saves the pruned stats and markers with the old seen set.
PrunedDocKeepUrls == Doc(doc0.urls, backlog_done, feed_stats)

\* The document of lines 179-183: no URL, the markers and stats kept.
PrunedDoc == Doc({}, backlog_done, feed_stats)

\* The immediate save of the pruned state (lines 178-185); a failing save is
\* logged and the cycle goes on.
PruneSave ==
    /\ pc = "prune_save"
    /\ \E ok \in BOOLEAN :
        IF ok THEN /\ store' = PrunedDoc
                   /\ stored' = TRUE
                   /\ cycle' = [cycle EXCEPT !.prune_saved = TRUE]
        ELSE UNCHANGED <<store, stored, cycle>>
    /\ pc' = "backlog"
    /\ UNCHANGED <<feeds, add_url, quality, seen, backlog_done, feed_stats, i, items, sent>>
    /\ UNCHANGED <<env, coordinator, now, quiet>>
    /\ UNCHANGED <<doc0, ended, step, posted, failed, marks>>
    /\ UNCHANGED triggers
    /\ UNCHANGED flow

\* ---- backlog pass (lines 190-279)
\* A feed without backlog source, or whose backlog is done: only its stats
\* are touched (line 279, backlog_sent = 0).
BacklogSkip ==
    /\ pc = "backlog"
    /\ ~Eligible
    /\ feed_stats' = _metube_update_feed_stats(feed_stats, Feed.url, 0)
    /\ step' = BeginStep("backlog", "skipped", <<>>)
    /\ AfterBacklogStep
    /\ UNCHANGED <<feeds, add_url, quality, seen, backlog_done, items, sent>>
    /\ UNCHANGED <<env, disk, coordinator, now, quiet>>
    /\ UNCHANGED <<doc0, ended, cycle, posted, failed, marks>>
    /\ UNCHANGED triggers
    /\ UNCHANGED flow

\* RSS backlog (lines 198-210): the feed itself is the source.  A request
\* that raises, a status other than 200 and a parse that raises all end in
\* the handler of line 234, past backlog_done.add; line 279 follows.
BacklogRssFetch ==
    /\ pc = "backlog"
    /\ Eligible
    /\ Feed.backlog = Feed.url
    /\ runs' = Tally(runs, Feed.url)
    /\ sent' = 0
    /\ LET resp == world.feed[Feed.url]
       IN IF resp.status = NoAnswer \/ resp.status # HttpOk \/ ~resp.parses
          THEN /\ feed_stats' = _metube_update_feed_stats(feed_stats, Feed.url, 0)
               /\ step' = BeginStep("rss_backlog", "failed", <<>>)
               /\ items' = <<>>
               /\ AfterBacklogStep
          ELSE /\ items' = resp.links
               /\ step' = BeginStep("rss_backlog", "running", resp.links)
               /\ pc' = "backlog_rss_items"
               /\ UNCHANGED <<feed_stats, i>>
    /\ UNCHANGED <<feeds, add_url, quality, seen, backlog_done>>
    /\ UNCHANGED <<env, disk, coordinator, now, quiet>>
    /\ UNCHANGED <<doc0, ended, cycle, posted, failed, pruned, reconfigured, prev, lost, retried>>
    /\ UNCHANGED triggers
    /\ UNCHANGED flow

\* One entry of the RSS backlog (lines 211-226).
BacklogRssItem ==
    /\ pc = "backlog_rss_items"
    /\ items # <<>>
    /\ LET link == EntryLink(Head(items))
       IN \/ ~IsNew(link, seen) /\ SkipEntry(link)
          \/ IsNew(link, seen) /\ \E st \in PostAnswers : SubmitEntry(link, st)
    /\ UNCHANGED <<pc, feeds, add_url, quality, backlog_done, feed_stats, i>>
    /\ UNCHANGED <<env, disk, coordinator, now, quiet>>
    /\ UNCHANGED <<doc0, ended, runs, pruned, reconfigured, prev, lost>>
    /\ UNCHANGED triggers
    /\ UNCHANGED flow

\* End of the RSS backlog (line 227) and line 279.
BacklogRssEnd ==
    /\ pc = "backlog_rss_items"
    /\ items = <<>>
    /\ backlog_done' = backlog_done \cup {Feed.url}
    /\ feed_stats' = _metube_update_feed_stats(feed_stats, Feed.url, sent)
    /\ step' = [step EXCEPT !.state = "done"]
    /\ AfterBacklogStep
    /\ UNCHANGED <<feeds, add_url, quality, seen, items, sent>>
    /\ UNCHANGED <<env, disk, coordinator, now, quiet>>
    /\ UNCHANGED <<doc0, ended, cycle, posted, failed, marks>>
    /\ UNCHANGED triggers
    /\ UNCHANGED flow

\* Playlist backlog (lines 237-242): the listing runs as an executor job; a
\* job that raises ends in the handler of line 277, past backlog_done.add.
BacklogPlaylistList ==
    /\ pc = "backlog"
    /\ Eligible
    /\ Feed.backlog # Feed.url
    /\ runs' = Tally(runs, Feed.url)
    /\ sent' = 0
    /\ IF ~world.playlist.job_ok
       THEN /\ feed_stats' = _metube_update_feed_stats(feed_stats, Feed.url, 0)
            /\ step' = BeginStep("playlist_backlog", "failed", <<>>)
            /\ items' = <<>>
            /\ AfterBacklogStep
       ELSE /\ items' = _yt_dlp_playlist_video_urls(world.playlist)
            /\ step' = BeginStep("playlist_backlog", "running", items')
            /\ pc' = "backlog_playlist_items"
            /\ UNCHANGED <<feed_stats, i>>
    /\ UNCHANGED <<feeds, add_url, quality, seen, backlog_done>>
    /\ UNCHANGED <<env, disk, coordinator, now, quiet>>
    /\ UNCHANGED <<doc0, ended, cycle, posted, failed, pruned, reconfigured, prev, lost, retried>>
    /\ UNCHANGED triggers
    /\ UNCHANGED flow

\* The listing does not return: _yt_dlp_playlist_video_urls is given no
\* timeout (lines 39-43) and the executor job is awaited without one (lines
\* 239-241), so the cycle waits for as long as yt-dlp does.
BacklogPlaylistStalls ==
    /\ pc = "backlog"
    /\ Eligible
    /\ Feed.backlog # Feed.url
    /\ runs' = Tally(runs, Feed.url)
    /\ step' = BeginStep("playlist_backlog", "listing", <<>>)
    /\ pc' = "listing"
    /\ UNCHANGED <<feeds, add_url, quality, seen, backlog_done, feed_stats, i, items, sent>>
    /\ UNCHANGED <<env, disk, coordinator, now, quiet>>
    /\ UNCHANGED <<doc0, ended, cycle, posted, failed, pruned, reconfigured, prev, lost, retried>>
    /\ UNCHANGED triggers
    /\ UNCHANGED flow

\* One URL of the playlist (lines 243-269): taken as listed, not stripped.
BacklogPlaylistItem ==
    /\ pc = "backlog_playlist_items"
    /\ items # <<>>
    /\ LET link == Head(items)
       IN \/ ~IsNew(link, seen) /\ SkipEntry(link)
          \/ IsNew(link, seen) /\ \E st \in PostAnswers : SubmitEntry(link, st)
    /\ UNCHANGED <<pc, feeds, add_url, quality, backlog_done, feed_stats, i>>
    /\ UNCHANGED <<env, disk, coordinator, now, quiet>>
    /\ UNCHANGED <<doc0, ended, runs, pruned, reconfigured, prev, lost>>
    /\ UNCHANGED triggers
    /\ UNCHANGED flow

\* End of the playlist backlog (line 270) and line 279.
BacklogPlaylistEnd ==
    /\ pc = "backlog_playlist_items"
    /\ items = <<>>
    /\ backlog_done' = backlog_done \cup {Feed.url}
    /\ feed_stats' = _metube_update_feed_stats(feed_stats, Feed.url, sent)
    /\ step' = [step EXCEPT !.state = "done"]
    /\ AfterBacklogStep
    /\ UNCHANGED <<feeds, add_url, quality, seen, items, sent>>
    /\ UNCHANGED <<env, disk, coordinator, now, quiet>>
    /\ UNCHANGED <<doc0, ended, cycle, posted, failed, marks>>
    /\ UNCHANGED triggers
    /\ UNCHANGED flow

\* A variant that leaves the loop over the feeds instead of continuing.
BreakAfterFailedFetch == i' = i /\ pc' = "persist"

\* ---- incremental pass (lines 281-350)
\* `continue` after a failed fetch or parse (lines 301, 306, 313).
ContinueAfterFailedFetch == AfterIncrStep

\* The GET and the parse of feeds[i] (lines 287-313): a request that raises,
\* a status other than 200 and a parse that raises each record a stat of 0
\* and go on to the next feed.
IncrFetch ==
    /\ pc = "incr"
    /\ Feed.url # <<>>
    /\ sent' = 0
    /\ LET resp == world.feed[Feed.url]
       IN IF resp.status = NoAnswer \/ resp.status # HttpOk \/ ~resp.parses
          THEN /\ feed_stats' = _metube_update_feed_stats(feed_stats, Feed.url, 0)
               /\ step' = BeginStep("incremental", "failed", <<>>)
               /\ cycle' = [cycle EXCEPT !.fetched = Append(@, Feed.url),
                                         !.failed_fetch = @ \cup {Feed.url}]
               /\ items' = <<>>
               /\ ContinueAfterFailedFetch
          ELSE /\ items' = resp.links
               /\ step' = BeginStep("incremental", "running", resp.links)
               /\ cycle' = [cycle EXCEPT !.fetched = Append(@, Feed.url)]
               /\ pc' = "incr_items"
               /\ UNCHANGED <<feed_stats, i>>
    /\ UNCHANGED <<feeds, add_url, quality, seen, backlog_done>>
    /\ UNCHANGED <<env, disk, coordinator, now, quiet>>
    /\ UNCHANGED <<doc0, ended, posted, failed, marks>>
    /\ UNCHANGED triggers
    /\ UNCHANGED flow

\* One entry of the feed (lines 315-343).
IncrItem ==
    /\ pc = "incr_items"
    /\ items # <<>>
    /\ LET link == EntryLink(Head(items))
       IN \/ ~IsNew(link, seen) /\ SkipEntry(link)
          \/ IsNew(link, seen) /\ \E st \in PostAnswers : SubmitEntry(link, st)
    /\ UNCHANGED <<pc, feeds, add_url, quality, backlog_done, feed_stats, i>>
    /\ UNCHANGED <<env, disk, coordinator, now, quiet>>
    /\ UNCHANGED <<doc0, ended, runs, pruned, reconfigured, prev, lost>>
    /\ UNCHANGED triggers
    /\ UNCHANGED flow

\* A variant that goes on to the next feed while entries are left.
IncrEndEarly ==
    /\ pc = "incr_items"
    /\ feed_stats' = _metube_update_feed_stats(feed_stats, Feed.url, sent)
    /\ step' = [step EXCEPT !.state = "done"]
    /\ AfterIncrStep
    /\ UNCHANGED <<feeds, add_url, quality, seen, backlog_done, items, sent>>
    /\ UNCHANGED <<env, disk, coordinator, now, quiet>>
    /\ UNCHANGED <<doc0, ended, cycle, posted, failed, marks>>
    /\ UNCHANGED triggers
    /\ UNCHANGED flow

\* End of the feed's entries (line 350).
IncrEnd ==
    /\ pc = "incr_items"
    /\ items = <<>>
    /\ feed_stats' = _metube_update_feed_stats(feed_stats, Feed.url, sent)
    /\ step' = [step EXCEPT !.state = "done"]
    /\ AfterIncrStep
    /\ UNCHANGED <<feeds, add_url, quality, seen, backlog_done, items, sent>>
    /\ UNCHANGED <<env, disk, coordinator, now, quiet>>
    /\ UNCHANGED <<doc0, ended, cycle, posted, failed, marks>>
    /\ UNCHANGED triggers
    /\ UNCHANGED flow

\* A variant that hands the coordinator the stats of the durable document as
\* it was before the final write.
UpdatedDataFromStore == store.feed_stats

\* coordinator.async_set_updated_data(feed_stats) of line 360.
UpdatedData == feed_stats

\* A variant without the handler of lines 358-359: the failed write reaches
\* the handler of line 362.
SaveFailedUnhandled == "raised"

\* `except Exception` of lines 358-359: the failed write is logged and the
\* cycle goes on to line 360.
SaveFailed == "save_failed"

\* ---- Persist (lines 352-360): one save of all three fields; a failing save
\* is logged.  The coordinator is handed the stats either way.
Persist ==
    /\ pc = "persist"
    /\ \E ok \in BOOLEAN :
        /\ IF ok THEN store' = FinalDoc /\ stored' = TRUE
           ELSE UNCHANGED <<store, stored>>
        /\ cycle' = [cycle EXCEPT !.writes = @ + 1]
        /\ ended' = IF ok THEN "completed" ELSE SaveFailed
    /\ coordinator' = UpdatedData
    /\ pc' = "idle"
    /\ step' = NoStep
    /\ UNCHANGED <<feeds, add_url, quality, seen, backlog_done, feed_stats, i, items, sent>>
    /\ UNCHANGED <<env, now, quiet>>
    /\ UNCHANGED <<doc0, posted, failed, marks>>
    /\ UNCHANGED triggers
    /\ UNCHANGED flow

\* A variant whose handler saves what the cycle holds in memory.
PollFailedDocSaved == FinalDoc

\* The handler of lines 362-363 only logs: the durable document stays as the
\* last write of the cycle, if any, left it.
PollFailedDoc == store

\* A variant without the handler: the exception leaves the coroutine.
PollFailedReraised == "propagated"

\* `except Exception` of lines 362-363: the exception is logged and the
\* coroutine returns None.
PollFailed == "raised"

\* The cycle is cut short after Load: an exception reaches the handler of
\* line 362 (the cycle returns), or the process stops (Home Assistant is
\* restarted and the entry is set up again).  Nothing is saved.
CutShort ==
    /\ pc \notin {"idle", "load"}
    /\ \E how \in {"raised", "crashed"} :
        /\ ended' = IF how = "raised" THEN PollFailed ELSE how
        /\ coordinator' = IF how = "crashed" THEN store.feed_stats ELSE coordinator
    /\ pc' = "idle"
    /\ feeds' = <<>> /\ add_url' = <<>> /\ quality' = ""
    /\ seen' = {} /\ backlog_done' = {} /\ feed_stats' = NoStats
    /\ i' = 1 /\ items' = <<>> /\ sent' = 0
    /\ step' = NoStep
    /\ lost' = lost \cup cycle.urls
    /\ cycle' = [NoCycle EXCEPT !.loaded = cycle.loaded, !.pruned = cycle.pruned,
                                !.prune_saved = cycle.prune_saved,
                                !.after_prune = cycle.after_prune]
    /\ store' = PollFailedDoc
    /\ UNCHANGED <<env, stored, now, quiet>>
    /\ UNCHANGED <<doc0, posted, failed, runs, pruned, reconfigured, prev, retried>>
    /\ UNCHANGED triggers
    /\ UNCHANGED flow

Next ==
    \/ ChangeWorld
    \/ EditConfig
    \/ Start
    \/ Load
    \/ PruneSave
    \/ BacklogSkip
    \/ BacklogRssFetch
    \/ BacklogRssItem
    \/ BacklogRssEnd
    \/ BacklogPlaylistList
    \/ BacklogPlaylistStalls
    \/ BacklogPlaylistItem
    \/ BacklogPlaylistEnd
    \/ IncrFetch
    \/ IncrItem
    \/ IncrEnd
    \/ Persist
    \/ CutShort

Spec == Init /\ [][Next]_vars

\* The steps of a cycle that the event loop runs once their await is over:
\* store reads and writes, requests bounded by ClientTimeout(total=30), a
\* listing that returns.
CycleStep ==
    \/ Load
    \/ PruneSave
    \/ BacklogSkip
    \/ BacklogRssFetch
    \/ BacklogRssItem
    \/ BacklogRssEnd
    \/ BacklogPlaylistList
    \/ BacklogPlaylistItem
    \/ BacklogPlaylistEnd
    \/ IncrFetch
    \/ IncrItem
    \/ IncrEnd
    \/ Persist

\* A cycle that can take a step takes one; exceptions, restarts and changes
\* of the environment may or may not happen.
SpecLive == Spec /\ WF_vars(CycleStep)

\* --------------------------------------------- removal of the entry
\* The user deletes the entry: Home Assistant drops it from its registry and
\* calls async_remove_entry (lines 395-402), which removes the document of
\* the entry's store.  A cycle that is running goes on: it read the entry at
\* line 132 and holds its own Store object.
async_remove_entry ==
    /\ config.exists
    /\ config' = NoEntry
    /\ store' = EmptyDoc
    /\ stored' = FALSE
    /\ quiet' = 0
    /\ UNCHANGED <<prog, world, changes, coordinator, now, hist>>
    /\ UNCHANGED triggers
    /\ UNCHANGED flow

\* The options flow edits an entry that exists and leaves it in place.
EditOptions ==
    /\ config.exists
    /\ EditConfig
    /\ config'.exists

\* The cycles of an entry that may be edited and may be removed: the entry
\* is absent exactly when it has been removed.
NextRemoval ==
    \/ ChangeWorld
    \/ EditOptions
    \/ Start
    \/ CycleStep
    \/ BacklogPlaylistStalls
    \/ CutShort
    \/ async_remove_entry

SpecRemoval == Init /\ [][NextRemoval]_vars

\* ------------------------------------------ the normalizer on its own
\* Elements of rss_feeds as a configuration may hold them: legacy strings,
\* records with and without name and backlog source, padded, blank and
\* missing values, and a value that is neither.
RawElements ==
    { RawStr(FeedF), RawStr(<<" ">> \o FeedG \o <<"\n">>), RawStr(Blank), RawStr(<<>>),
      RawOther,
      RawDict(FeedF, <<"F">>, FeedF),
      RawDict(FeedG, None, PlayP),
      RawDict(<<"\t">> \o FeedG, <<>>, Blank),
      RawDict(FeedF, <<" ", "F", " ">>, <<" ">> \o PlayP),
      RawDict(None, <<"F">>, PlayP),
      RawDict(<<>>, None, None),
      RawDict(Blank, <<"F">>, FeedF) }

RawLists == UNION {[1..n -> RawElements] : n \in 0..MaxRaw}

\* Any such list as the rss_feeds of a newly installed entry.
InitNormalize ==
    /\ config \in {Entry(CfgDict(raw, <<"m">>, "best"), EmptyDict) : raw \in RawLists}
    /\ Installed
    /\ FlowOver

\* The first cycle reads the entry (lines 130-152).
SpecNormalize == InitNormalize /\ [][Start]_vars

\* ------------------------------------------- the triggers (lines 365-375)
\* What the poll cycle holds is left alone here: this part is about when
\* cycles start and return, and a cycle is counted, not run.
cycles == <<prog, env, disk, coordinator, now, quiet, hist>>

\* A trigger calls _metube_poll_feeds: nothing in the callback looks at
\* whether an earlier call has returned.
_metube_poll_feeds_called ==
    /\ in_flight < MaxInFlight
    /\ in_flight' = in_flight + 1

\* _metube_setup_entry_impl registers the one-shot timer and the hourly
\* listener (lines 369-370).
async_setup_entry ==
    /\ ~remove_metube_poll
    /\ remove_metube_poll' = TRUE
    /\ first_poll_cancel' = FirstPollDelay
    /\ UNCHANGED <<clock, hour_event, in_flight, cycles, flow>>

\* An unload that removes the listener and leaves the timer pending.
async_unload_entry_timer_kept ==
    /\ remove_metube_poll
    /\ remove_metube_poll' = FALSE
    /\ first_poll_cancel' = first_poll_cancel
    /\ UNCHANGED <<clock, hour_event, in_flight, cycles, flow>>

\* The entry is unloaded (a reload after an options change, line 375, or a
\* removal): the callbacks of async_on_unload cancel the timer and the
\* listener (lines 371-372).  A cycle that is running is not cancelled.
async_unload_entry ==
    /\ remove_metube_poll
    /\ remove_metube_poll' = FALSE
    /\ first_poll_cancel' = NoTimer
    /\ UNCHANGED <<clock, hour_event, in_flight, cycles, flow>>

\* One second passes, once the callbacks due this second have been called.
Tick ==
    /\ ~hour_event
    /\ first_poll_cancel # 0
    /\ clock' = (clock + 1) % HourTicks
    /\ hour_event' = (clock' = 0)
    /\ first_poll_cancel' = IF first_poll_cancel > 0 THEN first_poll_cancel - 1
                            ELSE first_poll_cancel
    /\ UNCHANGED <<remove_metube_poll, in_flight, cycles, flow>>

\* _metube_first_poll (lines 366-367): the timer of async_call_later expires.
_metube_first_poll ==
    /\ first_poll_cancel = 0
    /\ first_poll_cancel' = NoTimer
    /\ _metube_poll_feeds_called
    /\ UNCHANGED <<clock, hour_event, remove_metube_poll, cycles, flow>>

\* async_track_utc_time_change(minute=0, second=0) calls _metube_poll_feeds
\* (line 370).
HourlyPoll ==
    /\ hour_event /\ remove_metube_poll
    /\ hour_event' = FALSE
    /\ _metube_poll_feeds_called
    /\ UNCHANGED <<clock, first_poll_cancel, remove_metube_poll, cycles, flow>>

\* Second 0 of the hour with no listener registered.
HourUnheard ==
    /\ hour_event /\ ~remove_metube_poll
    /\ hour_event' = FALSE
    /\ UNCHANGED <<clock, first_poll_cancel, remove_metube_poll, in_flight, cycles, flow>>

\* A poll cycle returns (lines 135, 146, 152, 360 or 363), after as long as
\* its requests took.
PollReturns ==
    /\ in_flight > 0
    /\ in_flight' = in_flight - 1
    /\ UNCHANGED <<clock, hour_event, first_poll_cancel, remove_metube_poll, cycles, flow>>

NextTriggers ==
    \/ async_setup_entry
    \/ async_unload_entry
    \/ Tick
    \/ _metube_first_poll
    \/ HourlyPoll
    \/ HourUnheard
    \/ PollReturns

SpecTriggers == Init /\ [][NextTriggers]_vars

\* ---------------------------------------- the config flow (config_flow.py)
HttpScheme == <<"h", "t", "t", "p", ":", "/", "/">>
HttpsScheme == <<"h", "t", "t", "p", "s", ":", "/", "/">>

\* str.startswith
startswith(s, p) == Len(s) >= Len(p) /\ SubSeq(s, 1, Len(p)) = p

\* `sub in s`
Contains(s, sub) ==
    \E k \in 0..(Len(s) - Len(sub)) : SubSeq(s, k + 1, k + Len(sub)) = sub

\* _normalize_url (lines 37-42)
_normalize_url(url) ==
    LET u == strip(OrEmpty(url))
        v == IF u # <<>> /\ ~startswith(u, HttpScheme) /\ ~startswith(u, HttpsScheme)
             THEN HttpScheme \o u
             ELSE u
    IN rstripSlash(v)

\* re.match(r"^https?://[^/]+", s)
UrlPattern(s) ==
    \E p \in {HttpScheme, HttpsScheme} :
        startswith(s, p) /\ Len(s) > Len(p) /\ s[Len(p) + 1] # "/"

\* _validate_metube_url (lines 50-59): the pattern is matched on the URL
\* normalized once more.
_validate_metube_url(url) ==
    LET normalized == _normalize_url(url)
    IN normalized # <<>> /\ UrlPattern(normalized)

\* " ".join(s.split()) on a stripped string
RECURSIVE JoinSplit(_)
JoinSplit(s) ==
    IF s = <<>> THEN <<>>
    ELSE IF Head(s) \in WS
         THEN LET r == lstrip(s) IN IF r = <<>> THEN <<>> ELSE <<" ">> \o JoinSplit(r)
         ELSE <<Head(s)>> \o JoinSplit(Tail(s))

\* _normalize_channel_name (lines 45-47)
_normalize_channel_name(s) == JoinSplit(strip(OrEmpty(s)))

YOUTUBE_FEED_ALL == "all"
YOUTUBE_FEED_VIDEOS == "videos"
YOUTUBE_FEED_SHORTS == "shorts"
YOUTUBE_FEED_LIVE == "live"
YOUTUBE_FEED_TYPES ==
    {YOUTUBE_FEED_ALL, YOUTUBE_FEED_VIDEOS, YOUTUBE_FEED_SHORTS, YOUTUBE_FEED_LIVE}

\* The prefix of the playlist of a feed type (lines 69-73 and 88-92).
PlaylistPrefix(feed_type) ==
    IF feed_type = YOUTUBE_FEED_SHORTS THEN <<"U", "U", "S", "H">>
    ELSE IF feed_type = YOUTUBE_FEED_LIVE THEN <<"U", "U", "L", "V">>
    ELSE <<"U", "U", "L", "F">>

\* prefix + channel_id[2:] if len(channel_id) > 2 else channel_id
PlaylistId(prefix, channel_id) ==
    IF Len(channel_id) > 2 THEN prefix \o SubSeq(channel_id, 3, Len(channel_id))
    ELSE channel_id

\* _youtube_feed_url (lines 62-76); feed_type is one of the lower-case types
_youtube_feed_url(channel_id, feed_type) ==
    LET ft == IF feed_type \in YOUTUBE_FEED_TYPES THEN feed_type ELSE YOUTUBE_FEED_ALL
    IN IF ft = YOUTUBE_FEED_ALL
       THEN <<"https://www.youtube.com/feeds/videos.xml?channel_id=">> \o channel_id
       ELSE <<"https://www.youtube.com/feeds/videos.xml?playlist_id=">>
                \o PlaylistId(PlaylistPrefix(ft), channel_id)

\* _youtube_backlog_playlist_url (lines 79-94)
_youtube_backlog_playlist_url(channel_id, feed_type) ==
    LET ft == IF feed_type \in YOUTUBE_FEED_TYPES THEN feed_type ELSE YOUTUBE_FEED_ALL
        prefix == IF ft = YOUTUBE_FEED_ALL THEN <<"U", "U">> ELSE PlaylistPrefix(ft)
    IN <<"https://www.youtube.com/playlist?list=">> \o PlaylistId(prefix, channel_id)

\* _normalize_youtube_channel_input (lines 123-135)
_normalize_youtube_channel_input(s0) ==
    LET s == strip(OrEmpty(s0))
    IN IF s = <<>> THEN <<>>
       ELSE IF startswith(s, HttpScheme) \/ startswith(s, HttpsScheme)
       THEN IF /\ ~Contains(s, <<"/", "v", "i", "d", "e", "o", "s">>)
               /\ ~Contains(s, <<"/", "c", "h", "a", "n", "n", "e", "l", "/">>)
               /\ Contains(s, <<"/", "@">>)
            THEN rstripSlash(s) \o <<"/videos">>
            ELSE s
       ELSE IF Head(s) = "@" THEN <<"https://www.youtube.com/">> \o s \o <<"/videos">>
       ELSE <<"https://www.youtube.com/@">> \o s \o <<"/videos">>

\* What ydl.extract_info answers (line 148).
Info(cid, id, uid, ch, up, ti, first) ==
    [raises |-> FALSE, falsy |-> FALSE, channel_id |-> cid, id |-> id,
     uploader_id |-> uid, channel |-> ch, uploader |-> up, title |-> ti,
     first |-> first]

ChanId == <<"U", "C", "x">>

Infos ==
    { NoInfo,
      [NoInfo EXCEPT !.raises = TRUE],
      Info(ChanId, None, None, <<" ", "N", " ", " ", "M">>, None, None, None),
      Info(None, ChanId, None, None, None, <<>>, None),
      Info(None, <<"U">>, None, None, <<"N">>, None, None),
      Info(None, None, <<"@", "c">>, None, <<"N">>, None, None),
      Info(None, None, <<"@", "c">>, <<"N">>, None, None, None),
      Info(None, None, None, None, None, <<"T">>, <<ChanId, None>>),
      Info(None, None, None, None, None, None, <<None, None>>) }

NotResolved == [ok |-> FALSE, channel_id |-> <<>>, title |-> <<>>]

\* _resolve_youtube_channel_sync (lines 138-168); info.first holds channel_id
\* and uploader_id of the first of info["entries"], None when there is none.
_resolve_youtube_channel_sync(info) ==
    IF info.raises \/ info.falsy THEN NotResolved
    ELSE LET own == OrStr(OrStr(info.channel_id, info.id),
                          IF OrEmpty(info.channel) # <<>> THEN info.uploader_id ELSE None)
             channel_id == IF OrEmpty(own) = <<>> /\ info.first # None
                           THEN OrStr(info.first[1], info.first[2])
                           ELSE own
             raw_title == strip(OrEmpty(OrStr(OrStr(info.channel, info.uploader), info.title)))
             title == _normalize_channel_name(raw_title)
         IN IF OrEmpty(channel_id) # <<>> /\ Len(channel_id) >= 2
            THEN [ok |-> TRUE, channel_id |-> channel_id, title |-> OrStr(title, channel_id)]
            ELSE NotResolved

\* _resolve_youtube_channel (lines 171-176)
_resolve_youtube_channel(channel_input, info) ==
    IF _normalize_youtube_channel_input(channel_input) = <<>> THEN NotResolved
    ELSE _resolve_youtube_channel_sync(info)

HttpMethodNotAllowed == 405

\* _test_metube_connection (lines 260-270): an exception is no answer.
_test_metube_connection(status) == status \in {HttpOk, HttpMethodNotAllowed}

FormErrors(e) == "base" :> e

ShowForm(e, asked, looked) ==
    [type |-> "form", errors |-> e, asked |-> asked, looked_up |-> looked]

\* The feed of the entry the step creates (lines 334-339).
FlowFeed(rss_url, name, backlog_url, channel_id) ==
    [type |-> "dict", url |-> rss_url, name |-> name, backlog |-> backlog_url,
     channel_id |-> channel_id]

\* The entry async_create_entry is called with (lines 341-348).
CreatedEntry(input, resolved) ==
    LET url == _normalize_url(input.metube_url)
        feed_type == YOUTUBE_FEED_VIDEOS
        fetch_backlog == input.fetch_backlog = "on"
        backlog_url == IF fetch_backlog
                       THEN _youtube_backlog_playlist_url(resolved.channel_id, feed_type)
                       ELSE <<>>
        name == _normalize_channel_name(OrStr(resolved.title, strip(OrEmpty(input.channel_name))))
        feed == FlowFeed(_youtube_feed_url(resolved.channel_id, feed_type), name,
                         backlog_url, resolved.channel_id)
        q == IF input.quality = "" THEN DEFAULT_QUALITY ELSE input.quality
    IN Entry(CfgDict(<<feed>>, None, ""), CfgDict(<<>>, url, q))

\* MeTubeManagerConfigFlow.async_step_user (lines 302-365): the result, and
\* the entry the registry holds afterwards.
async_step_user ==
    /\ flow_result = NoResult
    /\ LET url == _normalize_url(user_input.metube_url)
           asked == _normalize_url(url)
           channel_name == strip(OrEmpty(user_input.channel_name))
           looked == _normalize_youtube_channel_input(channel_name)
           resolved == _resolve_youtube_channel(channel_name, site.info)
       IN IF ~user_input.submitted
          THEN /\ flow_result' = ShowForm([k \in {} |-> ""], None, None)
               /\ config' = config
          ELSE IF ~_validate_metube_url(url)
          THEN /\ flow_result' = ShowForm(FormErrors("invalid_url"), None, None)
               /\ config' = config
          ELSE IF ~_test_metube_connection(site.status)
          THEN /\ flow_result' = ShowForm(FormErrors("cannot_connect"), asked, None)
               /\ config' = config
          ELSE IF channel_name = <<>>
          THEN /\ flow_result' = ShowForm(FormErrors("invalid_feed"), asked, None)
               /\ config' = config
          ELSE IF ~resolved.ok
          THEN /\ flow_result' = ShowForm(FormErrors("invalid_feed"), asked, looked)
               /\ config' = config
          ELSE /\ flow_result' = [type |-> "create_entry", errors |-> [k \in {} |-> ""],
                                  asked |-> asked, looked_up |-> looked]
               /\ config' = CreatedEntry(user_input, resolved)
    /\ UNCHANGED <<prog, world, changes, disk, coordinator, now, quiet, hist>>
    /\ UNCHANGED triggers
    /\ UNCHANGED <<user_input, site>>

\* What the form may be submitted with.
UserInputs ==
    [submitted : {TRUE},
     metube_url : {None, <<>>, <<"/">>, HttpScheme, <<"m">>, HttpScheme \o <<"m", "/">>,
                   <<" ">> \o HttpsScheme \o <<"m">>},
     quality : {"", "720p"},
     channel_name : {None, <<" ">>, <<"@", "c">>, <<" ", "c">>},
     fetch_backlog : {"absent", "on", "off"}]

Sites == [status : {HttpOk, HttpMethodNotAllowed, 404, NoAnswer}, info : Infos]

\* No entry yet; the step is opened, or the form is submitted.
InitFlow ==
    /\ config = NoEntry
    /\ Installed
    /\ user_input \in UserInputs \cup {NoInput}
    /\ site \in Sites
    /\ flow_result = NoResult

SpecFlow == InitFlow /\ [][async_step_user]_vars

\* ================================================================ claims
Returned == pc = "idle" /\ ended \in {"completed", "save_failed"}

SameTotals(a, b) ==
    /\ DOMAIN a = DOMAIN b
    /\ \A k \in DOMAIN a : a[k].total_sent = b[k].total_sent

\* C1: while Prune has never triggered, no video URL is POSTed to /add more
\* than once, all cycles and both passes counted.
C1_NoDuplicatePost == ~pruned => \A v \in DOMAIN posted : posted[v] <= 1

\* C2: a video URL POSTed in a cycle that was cut short (an exception ending
\* the cycle, or the process stopping) is not POSTed by any later cycle.
C2_NoRepostAfterCut == lost \cap cycle.urls = {}

\* C3: a URL whose POST failed is in the seen set the cycle saves, is not
\* counted in total_sent (each feed's total grows by its accepted POSTs
\* only), and is not POSTed again in that cycle nor in a later cycle in which
\* Prune does not trigger.
C3_FailedPostNotRetried ==
    /\ (pc = "idle" /\ ended = "completed") => cycle.failed \subseteq store.urls
    /\ Returned =>
         \A u \in DOMAIN feed_stats :
            feed_stats[u].total_sent =
                (IF u \in DOMAIN cycle.stats0 THEN cycle.stats0[u].total_sent ELSE 0)
                + (IF u \in DOMAIN cycle.accepted THEN cycle.accepted[u] ELSE 0)
    /\ retried = {}

\* The links of a feed that are non-empty once trimmed.
NonEmptyLinks(source) ==
    {strip(OrEmpty(source[k])) : k \in 1..Len(source)} \ {<<>>}

\* The trimmed, non-empty links of `source` not in `known`, each once, in the
\* feed's order: what a pass over the feed should POST.
RECURSIVE NewInOrder(_, _)
NewInOrder(source, known) ==
    IF source = <<>> THEN <<>>
    ELSE LET l == strip(OrEmpty(Head(source)))
         IN IF l # <<>> /\ l \notin known
            THEN <<l>> \o NewInOrder(Tail(source), known \cup {l})
            ELSE NewInOrder(Tail(source), known)

AcceptedIn(posts) == Cardinality({k \in 1..Len(posts) : posts[k].status \in {200, 201}})

\* C4: when the incremental step of a feed whose fetch and parse succeeded
\* ends, the URLs POSTed are exactly the feed's trimmed non-empty links that
\* were not seen at that moment, in the feed's order, each with the configured
\* quality and format mp4; the seen set is the previous one plus every
\* non-empty link of the feed; total_sent has grown by the POSTs answered 200
\* or 201.
C4_IncrementalStep ==
    (step.kind = "incremental" /\ step.state = "done") =>
        /\ [k \in 1..Len(step.posts) |-> step.posts[k].url]
             = NewInOrder(step.source, step.seen0)
        /\ \A k \in 1..Len(step.posts) :
             /\ step.posts[k].quality = EffectiveQuality(config)
             /\ step.posts[k].format = "mp4"
        /\ seen = step.seen0 \cup NonEmptyLinks(step.source)
        /\ step.feed \in DOMAIN feed_stats
        /\ feed_stats[step.feed].total_sent = step.total0 + AcceptedIn(step.posts)

\* C4 witness: an incremental step has ended that skipped an entry without
\* link and a blank one, POSTed a link that needed trimming, and had one POST
\* accepted and one refused.
C4_Witness ==
    /\ step.kind = "incremental" /\ step.state = "done"
    /\ Len(step.posts) = 2
    /\ AcceptedIn(step.posts) = 1
    /\ \E k \in 1..Len(step.source) :
         step.source[k] # None /\ strip(step.source[k]) # step.source[k]
            /\ strip(step.source[k]) \notin step.seen0
    /\ \E k \in 1..Len(step.source) : step.source[k] = None

C6_BacklogOnce == ~reconfigured => \A f \in DOMAIN runs : runs[f] <= 1

\* C7: when the backlog step of a feed has ended, however it ended, the feed
\* is marked backlog-done.
C7_BacklogAlwaysMarked ==
    (step.kind \in {"rss_backlog", "playlist_backlog"} /\ step.state \in {"done", "failed"})
        => step.feed \in backlog_done

CurrentFeedUrls ==
    LET fs == ConfiguredFeeds(config) IN {fs[k].url : k \in 1..Len(fs)}
StaleOf(cur) == (DOMAIN doc0.feed_stats \cup doc0.backlog_done) \ cur
Stale == StaleOf(CurrentFeedUrls)
StaleGoneOf(stale) ==
    /\ DOMAIN store.feed_stats \cap stale = {}
    /\ store.backlog_done \cap stale = {}
    /\ store.urls \subseteq cycle.urls

\* C8 as stated: when a cycle that found stored stats or a backlog marker of
\* a feed no longer configured has returned, whatever configuration is left,
\* the persisted document has neither for that feed and its seen set holds
\* nothing older than this cycle.
C8_PruneAlways ==
    (pc = "idle" /\ ended \in {"completed", "save_failed", "skipped"} /\ quiet >= 1)
        => (Stale # {} => StaleGoneOf(Stale))

\* C8 amended: the same once the cycle has passed its guard clauses (a MeTube
\* URL and at least one feed are left) and one of its writes has succeeded:
\* from the prune write on the persisted document is the pruned one with an
\* empty seen set, until the final write replaces it.
C8_PruneWhenWritten ==
    (quiet >= 1 /\ cycle.loaded = "ok") =>
        LET cur == CurrentFeedUrls
            stale == StaleOf(cur)
            saved == pc = "idle" /\ ended = "completed"
        IN /\ stale # {} => cycle.pruned
           /\ (stale # {} /\ (cycle.prune_saved \/ saved)) => StaleGoneOf(stale)
           /\ (cycle.prune_saved /\ ~saved) =>
                 store = Doc({}, doc0.backlog_done \cap cur,
                             [k \in DOMAIN doc0.feed_stats \cap cur |-> doc0.feed_stats[k]])

\* C8 witness: the prune write of a cycle succeeded over a document that
\* held seen URLs, stats and a backlog marker of a feed no longer configured.
C8_Witness ==
    /\ quiet >= 1 /\ cycle.prune_saved /\ pc = "backlog"
    /\ doc0.urls # {}
    /\ Stale \cap DOMAIN doc0.feed_stats # {}
    /\ Stale \cap doc0.backlog_done # {}
    /\ CurrentFeedUrls # {}
    /\ store.urls = {}

AllFeedUrls == [k \in 1..Len(feeds) |-> feeds[k].url]
TotalsGrewByAccepted ==
    \A u \in DOMAIN feed_stats :
        feed_stats[u].total_sent =
            (IF u \in DOMAIN cycle.stats0 THEN cycle.stats0[u].total_sent ELSE 0)
            + (IF u \in DOMAIN cycle.accepted THEN cycle.accepted[u] ELSE 0)

\* C9: a feed whose fetch or parse failed gets last_fetched set and total_sent
\* unchanged and the cycle goes on; a cycle that returns has fetched every
\* configured feed in order, every feed's total_sent has grown by its accepted
\* submissions, and a successful final write, the cycle's only one, holds the
\* stats of all feeds.
C9_PartialFailure ==
    /\ (step.kind = "incremental" /\ step.state = "failed") =>
          /\ feed_stats[step.feed] = [last_fetched |-> now, total_sent |-> step.total0]
          /\ pc \in {"incr", "persist"}
          /\ pc = "persist" => step.feed = feeds[Len(feeds)].url
    /\ Returned =>
          /\ cycle.fetched = AllFeedUrls
          /\ TotalsGrewByAccepted
          /\ cycle.writes = 1
    /\ (pc = "idle" /\ ended = "completed") =>
          /\ store.feed_stats = feed_stats
          /\ {feeds[k].url : k \in 1..Len(feeds)} \subseteq DOMAIN store.feed_stats

\* C9 witness: a cycle has ended and saved in which the first feed's fetch
\* failed and the second feed had two submissions accepted.
C9_Witness ==
    /\ pc = "idle" /\ ended = "completed"
    /\ cycle.failed_fetch = {FeedF}
    /\ cycle.fetched = <<FeedF, FeedG>>
    /\ FeedG \in DOMAIN cycle.accepted /\ cycle.accepted[FeedG] = 2
    /\ store.feed_stats[FeedF].total_sent = 0
    /\ store.feed_stats[FeedG].total_sent = 2

\* C10: the persisted document is at every moment the one the cycle started
\* from, the pruned one written right after Prune, or the three fields of the
\* memory state at the end of a cycle whose final write succeeded; the final
\* write is attempted at most once per cycle, after every feed has been
\* through both passes.
C10_WholeDocument ==
    /\ \/ store = doc0
       \/ cycle.prune_saved /\ store = cycle.after_prune
       \/ pc = "idle" /\ ended = "completed" /\ store = Doc(seen, backlog_done, feed_stats)
    /\ cycle.writes <= 1
    /\ cycle.writes = 1 => pc = "idle" /\ cycle.fetched = AllFeedUrls
    /\ (cycle.prune_saved /\ cycle.writes = 0) => store = cycle.after_prune
    /\ (~cycle.prune_saved /\ cycle.writes = 0) => store = doc0

\* C10 witness: a cycle whose prune write succeeded has ended with a
\* successful final write of new seen URLs and stats.
C10_Witness ==
    /\ pc = "idle" /\ ended = "completed" /\ cycle.prune_saved
    /\ cycle.writes = 1
    /\ store # doc0 /\ store # cycle.after_prune
    /\ store.urls # {} /\ store.backlog_done # {}

\* C11: with the one-shot poll 2 seconds after setup and the poll at second
\* 0 of every hour, at most one poll cycle of the entry is in flight.
C11_OneCycleInFlight == in_flight <= 1

\* C12: a cycle that finds no MeTube URL or no feed returns before Load: it
\* has read and written nothing, fetched and submitted nothing, and the
\* persisted document is the one it found; a cycle that gets to Load has both.
C12_GuardNoOp ==
    /\ (pc = "idle" /\ ended = "skipped") =>
          /\ cycle = NoCycle
          /\ step = NoStep
          /\ store = doc0
    /\ pc = "load" =>
          /\ config.exists
          /\ BaseUrl(config) # <<>>
          /\ ConfiguredFeeds(config) # <<>>
    /\ (pc = "idle" /\ quiet >= 1 /\ ended # "skipped") =>
          /\ config.exists
          /\ BaseUrl(config) # <<>>
          /\ ConfiguredFeeds(config) # <<>>

\* C12 witness: a cycle has returned at the guard clauses for want of a
\* MeTube URL, with a feed configured and a persisted document that holds
\* seen URLs, markers and stats.
C12_Witness ==
    /\ pc = "idle" /\ ended = "skipped" /\ quiet >= 1
    /\ config.exists
    /\ BaseUrl(config) = <<>>
    /\ ConfiguredFeeds(config) # <<>>
    /\ store.urls # {} /\ store.backlog_done # {} /\ store.feed_stats # NoStats

\* C13: however a cycle ends it has not raised to its caller: it is running,
\* or it has returned at the guard clauses, after Persist (saved or not), or
\* from the top-level handler, or the process has stopped; a failed load,
\* prune save, fetch, parse, listing or submission leaves it running.
C13_NeverRaises ==
    /\ ended \in {"never", "running", "skipped", "completed", "save_failed",
                  "raised", "crashed"}
    /\ (pc = "idle") <=> (ended # "running")
    /\ (step.state = "failed" \/ (cycle.pruned /\ ~cycle.prune_saved /\ pc = "backlog"))
          => ended = "running"

\* C13 witness: a cycle whose load failed and one of whose submissions was
\* refused has then been ended by an exception, and has returned.
C13_Witness ==
    /\ pc = "idle" /\ ended = "raised"
    /\ cycle.loaded = "failed"
    /\ lost \cap failed # {}

\* The seen set in memory does not lose a URL from Prune to the end of the
\* cycle.
SeenGrowsInCycle ==
    [][(pc \notin {"idle", "load"} /\ pc' # "idle") => seen \subseteq seen']_vars

\* C14 as stated: the persisted seen set holds every URL the document held
\* when the cycle started, unless Prune triggered in the cycle; and in memory
\* the seen set only grows after Prune.
C14_SeenNeverShrinks ==
    /\ [](cycle.pruned \/ doc0.urls \subseteq store.urls)
    /\ SeenGrowsInCycle

\* C14 amended: the same, a cycle whose Load failed apart: it starts from an
\* empty seen set and its final write replaces the persisted one.
C14_SeenShrinksOnlyOnReset ==
    /\ [](cycle.pruned \/ cycle.loaded = "failed" \/ doc0.urls \subseteq store.urls)
    /\ SeenGrowsInCycle

\* C14 witness: a cycle that loaded a document with seen URLs and did not
\* prune has written a new document, which holds them all.
C14_Witness ==
    /\ pc = "idle" /\ ended = "completed"
    /\ cycle.loaded = "ok" /\ ~cycle.pruned
    /\ doc0.urls # {}
    /\ doc0.urls \subseteq store.urls
    /\ store # doc0

KeptTotalsNotLower ==
    \A u \in DOMAIN doc0.feed_stats \cap DOMAIN store.feed_stats :
        store.feed_stats[u].total_sent >= doc0.feed_stats[u].total_sent
TotalsAreNatural ==
    \A u \in DOMAIN store.feed_stats : store.feed_stats[u].total_sent \in Nat

\* C15 as stated: every total_sent of the persisted document is a natural
\* number, and for a feed that the document held when the cycle started and
\* still holds it is not lower than it was.
C15_TotalsNeverDecrease == TotalsAreNatural /\ KeptTotalsNotLower

\* C15 amended: the same, a cycle whose Load failed apart: it counts from 0
\* and its final write replaces the persisted totals.
C15_TotalsDecreaseOnlyOnReset ==
    TotalsAreNatural /\ (cycle.loaded = "failed" \/ KeptTotalsNotLower)

\* C15 witness: a cycle has written a document in which a feed that had a
\* positive total has a higher one.
C15_Witness ==
    /\ pc = "idle" /\ ended = "completed" /\ cycle.loaded = "ok"
    /\ \E u \in DOMAIN doc0.feed_stats \cap DOMAIN store.feed_stats :
          /\ doc0.feed_stats[u].total_sent > 0
          /\ store.feed_stats[u].total_sent > doc0.feed_stats[u].total_sent

CreditedTo(u) == Cardinality({c \in cycle.credits : c[2] = u})

\* C16: within a cycle no URL is POSTed twice, whichever feeds list it; an
\* accepted URL is credited to one feed, the one whose step came to it first,
\* and every feed's total_sent has grown by the URLs credited to it alone.
C16_SharedSeen ==
    /\ cycle.dup = {}
    /\ \A c \in cycle.credits :
          /\ cycle.owner[c[1]] = c[2]
          /\ \A d \in cycle.credits : c[1] = d[1] => c[2] = d[2]
    /\ Returned =>
          \A u \in DOMAIN feed_stats :
              feed_stats[u].total_sent =
                  (IF u \in DOMAIN cycle.stats0 THEN cycle.stats0[u].total_sent ELSE 0)
                  + CreditedTo(u)

\* C16 witness: both feeds were fetched in a cycle and list the same URL; it
\* was POSTed and accepted in the first feed's step and counts for the first
\* feed, while the second feed's total is 0.
C16_Witness ==
    /\ pc = "idle" /\ ended = "completed" /\ quiet >= 1
    /\ cycle.fetched = <<FeedF, FeedG>> /\ cycle.failed_fetch = {}
    /\ \E v \in NonEmptyLinks(world.feed[FeedF].links)
                  \cap NonEmptyLinks(world.feed[FeedG].links) :
          /\ <<v, FeedF>> \in cycle.credits
          /\ posted[v] = 1
    /\ store.feed_stats[FeedF].total_sent >= 1
    /\ store.feed_stats[FeedG].total_sent = 0

InBacklogStep == step.kind \in {"rss_backlog", "playlist_backlog"} /\ pc # "idle"
InIncrementalPass == pc \in {"incr", "incr_items", "persist"}

\* C17: once the incremental pass of a cycle has started, every configured
\* feed has been through its backlog step of this cycle (line 279 has
\* recorded its stats at this cycle's time); while a backlog step runs no
\* feed has been fetched for the incremental pass; and no incremental
\* submission is of a URL marked seen in the backlog pass.
C17_BacklogBeforeIncremental ==
    /\ InIncrementalPass =>
          \A k \in 1..Len(feeds) :
              /\ feeds[k].url \in DOMAIN feed_stats
              /\ feed_stats[feeds[k].url].last_fetched = now
    /\ (pc \in {"backlog", "backlog_rss_items", "backlog_playlist_items"}) =>
          /\ cycle.fetched = <<>>
          /\ cycle.urls = cycle.backlog_urls
    /\ step.kind = "incremental" =>
          \A k \in 1..Len(step.posts) : step.posts[k].url \notin cycle.backlog_urls

\* C17 witness: the second feed's incremental step has ended, having found
\* the URLs of its feed already marked seen in the backlog pass, where the
\* first feed's step submitted them and the second feed's step ran too.
C17_Witness ==
    /\ step.kind = "incremental" /\ step.state = "done" /\ step.feed = FeedG
    /\ step.source # <<>> /\ step.posts = <<>>
    /\ NonEmptyLinks(step.source) \subseteq cycle.backlog_urls
    /\ \E c \in cycle.credits : c[2] = FeedF
    /\ runs[FeedG] >= 1 /\ FeedG \in backlog_done
    /\ cycle.loaded = "ok" /\ doc0 = EmptyDoc

CountOf(f, u) == IF u \in DOMAIN f THEN f[u] ELSE 0

\* C18: when a cycle has run to its end, the total_sent of every configured
\* feed is its total after Load (0 without previous stats) plus its backlog
\* submissions answered 200 or 201 plus its incremental submissions answered
\* 200 or 201; a successful final write persists that total.
C18_TotalIsBacklogPlusIncremental ==
    Returned =>
        \A k \in 1..Len(feeds) :
            LET u == feeds[k].url
                before == IF u \in DOMAIN cycle.stats0
                          THEN cycle.stats0[u].total_sent ELSE 0
                total == before + CountOf(cycle.backlog_ok, u) + CountOf(cycle.incr_ok, u)
            IN /\ u \in DOMAIN feed_stats
               /\ feed_stats[u].total_sent = total
               /\ ended = "completed" =>
                     /\ u \in DOMAIN store.feed_stats
                     /\ store.feed_stats[u].total_sent = total

\* C18 witness: a cycle has ended and saved in which one feed had a backlog
\* submission answered 201 and an incremental submission accepted, its
\* first stats: its total is 2.
C18_Witness ==
    /\ pc = "idle" /\ ended = "completed"
    /\ FeedG \notin DOMAIN cycle.stats0
    /\ CountOf(cycle.backlog_ok, FeedG) = 1
    /\ CountOf(cycle.incr_ok, FeedG) = 1
    /\ store.feed_stats[FeedG].total_sent = 2

\* What this cycle itself put in memory.
OnlyThisCycle ==
    /\ seen = cycle.urls
    /\ backlog_done \subseteq {feeds[k].url : k \in 1..Len(feeds)}
    /\ \A u \in backlog_done : u \in DOMAIN runs /\ runs[u] >= 1
    /\ \A u \in DOMAIN feed_stats :
        LET own == CountOf(cycle.backlog_ok, u) + CountOf(cycle.incr_ok, u)
        IN /\ feed_stats[u].total_sent <= own
           /\ Returned => feed_stats[u].total_sent = own

\* The step after a failed Load is the backlog pass, over three empty sets.
LoadFailureGoesOn ==
    [][(pc = "load" /\ cycle'.loaded = "failed") =>
          /\ pc' = "backlog"
          /\ seen' = {} /\ backlog_done' = {} /\ feed_stats' = NoStats]_vars

\* C19: a cycle whose Load failed (the load raised, or a field of the
\* document could not be read) goes on to the backlog pass with the seen set,
\* the backlog-done set and the stats all empty, so that Prune does not
\* trigger and memory holds only what this cycle put there; when it returns
\* it has fetched every feed and made its one final write.  A store never
\* written reads as the empty document.
C19_LoadFailureStartsEmpty ==
    /\ [](cycle.loaded = "failed" =>
            /\ ~cycle.pruned /\ cycle.stats0 = NoStats
            /\ OnlyThisCycle
            /\ Returned => (cycle.fetched = AllFeedUrls /\ cycle.writes = 1))
    /\ [](~stored => store = EmptyDoc)
    /\ LoadFailureGoesOn

\* C19 witness: over a document with seen URLs, done backlogs and stats, a
\* cycle whose Load failed has run both passes, posted again and written a
\* document that holds only its own URLs.
C19_Witness ==
    /\ pc = "idle" /\ ended = "completed"
    /\ cycle.loaded = "failed"
    /\ doc0.urls # {} /\ doc0.backlog_done # {} /\ doc0.feed_stats # NoStats
    /\ cycle.fetched = <<FeedF, FeedG>>
    /\ cycle.urls # {} /\ store.urls = cycle.urls
    /\ store.backlog_done # {}

\* C20: when the final write of a cycle fails, the cycle returns past the
\* handler of the write and publishes its stats; memory keeps the URLs marked
\* and the totals counted in the cycle; and the durable document is the one
\* the cycle started from, or the pruned one if the Prune write succeeded.
C20_FailedWriteKeepsDocument ==
    (pc = "idle" /\ cycle.writes = 1 /\ ended # "completed") =>
        /\ ended = "save_failed"
        /\ coordinator = feed_stats
        /\ cycle.urls \subseteq seen
        /\ TotalsGrewByAccepted
        /\ store = (IF cycle.prune_saved THEN cycle.after_prune ELSE doc0)

\* C20 witness: a cycle pruned and saved the pruned document, had a
\* submission accepted, and its final write failed: the durable document is
\* the pruned one, without the URLs of the cycle.
C20_Witness ==
    /\ pc = "idle" /\ ended = "save_failed" /\ cycle.writes = 1
    /\ cycle.prune_saved /\ store = cycle.after_prune /\ store # doc0
    /\ \E u \in DOMAIN cycle.accepted : cycle.accepted[u] >= 1
    /\ cycle.urls # {} /\ cycle.urls \subseteq seen /\ store.urls = {}

\* A second case of C20: without Prune the durable document is the one the
\* cycle started from.
C20_WitnessUnpruned ==
    /\ pc = "idle" /\ ended = "save_failed" /\ cycle.writes = 1
    /\ ~cycle.pruned /\ store = doc0
    /\ cycle.urls # {} /\ ~(cycle.urls \subseteq store.urls)

\* The cycle after one that the handler of line 362 ended reads the durable
\* document as that cycle left it.
NextCycleReadsStore ==
    [][(pc = "idle" /\ ended = "raised" /\ pc' # "idle") =>
          doc0' = store /\ store' = store]_vars

\* A Load that succeeds puts the durable document in memory, Prune applied.
LoadReadsStore ==
    [][(pc = "load" /\ cycle'.loaded = "ok") =>
          /\ store = doc0
          /\ seen' = (IF cycle'.pruned THEN {} ELSE store.urls)
          /\ backlog_done' \subseteq store.backlog_done
          /\ \A u \in DOMAIN feed_stats' : feed_stats'[u] = store.feed_stats[u]]_vars

\* C21: after a cycle that an exception ended at the handler of line 362, no
\* final write has been made: the durable document is the one the cycle
\* started from, or the pruned one if the Prune write was made, so the seen
\* set of before the cycle is durable unless Prune cleared it; the next cycle
\* starts from that document.
C21_RaisedCycleKeepsDocument ==
    /\ []((pc = "idle" /\ ended = "raised") =>
            /\ cycle.writes = 0
            /\ store = (IF cycle.prune_saved THEN cycle.after_prune ELSE doc0)
            /\ ~cycle.prune_saved => store.urls = doc0.urls)
    /\ NextCycleReadsStore
    /\ LoadReadsStore

\* C21 witness: over a document with seen URLs, a cycle that loaded it and
\* did not prune was ended by an exception; the document is unchanged.
C21_Witness ==
    /\ pc = "idle" /\ ended = "raised"
    /\ cycle.loaded = "ok" /\ ~cycle.pruned
    /\ doc0.urls # {} /\ store = doc0

\* A second case of C21: the next cycle has started from the document an
\* ended cycle left, and has loaded it.
C21_WitnessNextCycle ==
    /\ pc = "backlog" /\ now = 2 /\ prev = "none" /\ lost # {}
    /\ cycle.loaded = "ok" /\ doc0 = store /\ seen = store.urls

\* The cycle is past the Prune step and has made no final write that
\* succeeded.
PastPrune ==
    \/ pc \in {"backlog", "backlog_rss_items", "backlog_playlist_items",
               "incr", "incr_items", "persist"}
    \/ pc = "idle" /\ ended = "save_failed"

\* What Prune leaves: no URL, and markers and stats of configured feeds only.
IsPrunedState(d) ==
    LET cur == {feeds[k].url : k \in 1..Len(feeds)}
    IN /\ d.urls = {}
       /\ d.backlog_done = doc0.backlog_done \cap cur
       /\ DOMAIN d.feed_stats = DOMAIN doc0.feed_stats \cap cur
       /\ \A u \in DOMAIN d.feed_stats : d.feed_stats[u] = doc0.feed_stats[u]

\* The Prune write comes before any work of the cycle.
NoWorkBeforePruneSave ==
    pc = "prune_save" =>
        /\ step = NoStep /\ cycle.urls = {} /\ cycle.fetched = <<>>
        /\ IsPrunedState(Doc(seen, backlog_done, feed_stats))

\* C22 as stated: once Prune has triggered and the cycle is past it, the
\* durable document is the pruned state, until a final write replaces it.
C22_PrunedStateDurable ==
    /\ NoWorkBeforePruneSave
    /\ (cycle.pruned /\ cycle.loaded = "ok" /\ PastPrune) =>
            IsPrunedState(store) /\ store = cycle.after_prune

\* C22, amended: the Prune write is attempted before any work of the cycle;
\* when it succeeds the durable document is the pruned state for the rest of
\* the cycle, whether the cycle is ended by an exception or its final write
\* fails; when it fails the durable document stays the one the cycle started
\* from.
C22_PrunedStateDurableIfWritten ==
    /\ NoWorkBeforePruneSave
    /\ (cycle.pruned /\ cycle.loaded = "ok" /\ PastPrune) =>
            IF cycle.prune_saved
            THEN IsPrunedState(store) /\ store = cycle.after_prune
            ELSE store = doc0
    /\ (pc = "idle" /\ ended = "raised" /\ cycle.prune_saved) =>
            store = cycle.after_prune /\ store.urls = {}

\* C22 witness: Prune dropped a feed and cleared a seen set that was not
\* empty, the pruned state was written, work was done, and the final write
\* failed: the durable document is the pruned state.
C22_Witness ==
    /\ pc = "idle" /\ ended = "save_failed"
    /\ cycle.loaded = "ok" /\ cycle.prune_saved
    /\ doc0.urls # {} /\ DOMAIN doc0.feed_stats # DOMAIN store.feed_stats
    /\ cycle.fetched # <<>>
    /\ IsPrunedState(store)

\* C23: every poll cycle that has started returns.
C23_CycleReturns == (pc # "idle") ~> (pc = "idle")

\* What the timeouts of the requests do give: a cycle returns or is left
\* waiting for the playlist listing.
C23_ReturnsUnlessListingStalls == (pc # "idle") ~> (pc \in {"idle", "listing"})

\* The backlog step of a feed whose URL is marked touches its stats only.
MarkedFeedIsSkipped ==
    [][(pc = "backlog" /\ Feed.url \in backlog_done /\ pc' # "idle") =>
          /\ runs' = runs /\ posted' = posted /\ seen' = seen
          /\ step'.kind = "backlog" /\ step'.state = "skipped"
          /\ pc' \in {"backlog", "incr"}]_vars

\* C24: a feed URL that is in the backlog-done set has no backlog step,
\* whatever backlog source its feed has now; and the markers of the durable
\* document that a cycle loads are in that set for every feed URL still
\* configured, so that a feed whose backlog source was changed under the
\* same URL is not run again.
C24_MarkerKeyedByFeedUrl ==
    /\ []((pc \notin {"idle", "load"} /\ cycle.loaded = "ok") =>
            \A k \in 1..Len(feeds) :
                feeds[k].url \in doc0.backlog_done => feeds[k].url \in backlog_done)
    /\ MarkedFeedIsSkipped

\* C24 witness: the backlog of f ran from the feed itself; the entry was
\* edited to give f a playlist as backlog source; the next cycle loaded the
\* marker, skipped f's backlog step and has ended.
C24_Witness ==
    /\ pc = "idle" /\ ended = "completed" /\ cycle.loaded = "ok"
    /\ ConfiguredFeeds(config) = <<[url |-> FeedF, name |-> FeedF, backlog |-> PlayP]>>
    /\ FeedF \in doc0.backlog_done /\ FeedF \in store.backlog_done
    /\ runs[FeedF] = 1
    /\ cycle.backlog_urls = {}

\* A status of the 2xx class.
Is2xx(st) == st >= 200 /\ st <= 299

\* C25: the incremental step of a feed goes through the feed's entries
\* exactly when the GET was answered with a 2xx status and the parse
\* returned; otherwise it posts nothing, records the feed's stats with the
\* total unchanged and the cycle goes on with the next feed.
C25_FetchSucceedsOn2xx ==
    step.kind = "incremental" =>
        LET resp == world.feed[step.feed]
        IN /\ (step.state # "failed") <=> (Is2xx(resp.status) /\ resp.parses)
           /\ step.state = "failed" =>
                /\ step.posts = <<>>
                /\ feed_stats[step.feed] = [last_fetched |-> now, total_sent |-> step.total0]
                /\ pc \in {"incr", "persist"}

\* What the code does: the same with status 200 alone in place of 2xx.
C25_FetchSucceedsOn200 ==
    step.kind = "incremental" =>
        LET resp == world.feed[step.feed]
        IN /\ (step.state # "failed") <=> (resp.status = 200 /\ resp.parses)
           /\ step.state = "failed" =>
                /\ step.posts = <<>>
                /\ feed_stats[step.feed] = [last_fetched |-> now, total_sent |-> step.total0]
                /\ pc \in {"incr", "persist"}

\* Text with a character that is not white space.
NonBlank(t) == t # None /\ \E k \in 1..Len(t) : t[k] \notin WS
\* Text without white space at either end.
Trimmed(t) == t = <<>> \/ (t[1] \notin WS /\ t[Len(t)] \notin WS)
\* t with white space taken off both ends gives u.
TrimOf(t, u) ==
    /\ Trimmed(u)
    /\ \E a, b \in 0..Len(t) :
        /\ a + b + Len(u) = Len(t)
        /\ \A k \in 1..Len(t) :
            IF k <= a \/ k > Len(t) - b THEN t[k] \in WS ELSE t[k] = u[k - a]

\* The elements of a raw list that have a URL.
KeptAt(raw) == {k \in 1..Len(raw) : raw[k].type \in {"dict", "str"} /\ NonBlank(raw[k].url)}

\* C26: the descriptors are those of the elements with a URL that is not
\* missing, empty or blank (strings and records only), one each and in the
\* order of the input; the URL is the element's, trimmed; a string element
\* and a record without a name have the URL as name; a backlog source is
\* there exactly when the record has one that is not blank.
C26_NormalizerKeepsOrder ==
    ended # "never" =>
        LET raw == config.options.rss_feeds
            out == ConfiguredFeeds(config)
            kept == KeptAt(raw)
        IN /\ ended = "skipped" <=> kept = {}
           /\ ended = "running" => feeds = out
           /\ Len(out) = Cardinality(kept)
           /\ \A k \in kept :
                LET x == raw[k]
                    d == out[Cardinality({m \in kept : m <= k})]
                IN /\ TrimOf(x.url, d.url) /\ d.url # <<>>
                   /\ x.type = "str" => d.name = d.url /\ d.backlog = <<>>
                   /\ (x.type = "dict" /\ x.name \in {None, <<>>}) => d.name = d.url
                   /\ (x.type = "dict" /\ NonBlank(x.name)) => TrimOf(x.name, d.name)
                   /\ d.backlog # <<>> <=> (x.type = "dict" /\ NonBlank(x.backlog))
                   /\ d.backlog # <<>> => TrimOf(x.backlog, d.backlog)

\* C26 witness: of a padded string, a value that is neither string nor
\* record and a nameless record with a blank backlog source, in this order,
\* the cycle holds two descriptors: g named g, then g named g, no backlog.
C26_Witness ==
    /\ ended = "running"
    /\ config.options.rss_feeds =
          <<RawStr(<<" ">> \o FeedG \o <<"\n">>), RawOther, RawDict(<<"\t">> \o FeedG, <<>>, Blank)>>
    /\ feeds = <<[url |-> FeedG, name |-> FeedG, backlog |-> <<>>],
                 [url |-> FeedG, name |-> FeedG, backlog |-> <<>>]>>

\* The non-empty URLs of `source` not in `known`, each once, in the order of
\* the listing and as the listing gives them.
RECURSIVE NewAsListed(_, _)
NewAsListed(source, known) ==
    IF source = <<>> THEN <<>>
    ELSE LET l == Head(source)
         IN IF l # <<>> /\ l \notin known
            THEN <<l>> \o NewAsListed(Tail(source), known \cup {l})
            ELSE NewAsListed(Tail(source), known)

PostedUrls(posts) == [k \in 1..Len(posts) |-> posts[k].url]

\* C27: the backlog step of an eligible feed takes the feed itself as source
\* when the backlog source is the feed URL and the playlist listing
\* otherwise; when it ends, the URLs POSTed are the non-empty URLs of the
\* source that were not seen, each once and in order, whatever each POST was
\* answered, and the seen set is the previous one plus these.
C27_BacklogStep ==
    /\ pc \in {"backlog_rss_items", "backlog_playlist_items"} =>
          /\ step.feed = Feed.url /\ Feed.backlog # <<>>
          /\ Feed.url \notin backlog_done
          /\ step.kind = (IF Feed.backlog = Feed.url THEN "rss_backlog" ELSE "playlist_backlog")
          /\ step.source = (IF Feed.backlog = Feed.url THEN world.feed[Feed.url].links
                            ELSE _yt_dlp_playlist_video_urls(world.playlist))
    /\ (step.kind = "rss_backlog" /\ step.state = "done") =>
          /\ PostedUrls(step.posts) = NewInOrder(step.source, step.seen0)
          /\ seen = step.seen0 \cup NonEmptyLinks(step.source)
    /\ (step.kind = "playlist_backlog" /\ step.state = "done") =>
          /\ PostedUrls(step.posts) = NewAsListed(step.source, step.seen0)
          /\ seen = step.seen0 \cup ({step.source[k] : k \in 1..Len(step.source)} \ {<<>>})

\* C27 witness: an RSS backlog step has ended whose first POST failed and
\* whose second POST was made all the same.
C27_Witness ==
    /\ step.kind = "rss_backlog" /\ step.state = "done"
    /\ Len(step.posts) = 2
    /\ step.posts[1].status \notin {200, 201}
    /\ step.posts[2].status = 201

\* A second case of C27: a playlist backlog step has ended that skipped the
\* two URLs of its listing, both seen in the step of the feed before.
C27_WitnessPlaylist ==
    /\ step.kind = "playlist_backlog" /\ step.state = "done"
    /\ step.posts = <<>> /\ Len(step.source) = 2
    /\ step.source[1] \in step.seen0 /\ step.source[2] \in step.seen0

\* The pass a position of the cycle belongs to: 1 backlog, 2 incremental.
PassOf(p) ==
    IF p \in {"backlog", "backlog_rss_items", "backlog_playlist_items", "listing"} THEN 1
    ELSE IF p \in {"incr", "incr_items"} THEN 2 ELSE 0

AtEntries(p) == p \in {"backlog_rss_items", "backlog_playlist_items", "incr_items"}

\* A pass starts at the first feed.
PassStartsAtFirstFeed ==
    [][(PassOf(pc') # 0 /\ PassOf(pc') # PassOf(pc)) => i' = 1]_vars

\* Within a pass the feed index stays or goes up by one, and goes up only
\* when the entries of the feed have all been gone through.
OneFeedAfterAnother ==
    [][(PassOf(pc) # 0 /\ PassOf(pc') = PassOf(pc)) =>
          /\ i' \in {i, i + 1}
          /\ i' = i + 1 =>
                /\ ~AtEntries(pc')
                /\ AtEntries(pc) => items = <<>>]_vars

\* A step of the cycle makes one request at most; a submission is of the
\* entry at the head of the current feed's entries, for the current feed; a
\* fetch of the incremental pass is of the current feed.
OneRequestAtATime ==
    [][(pc # "idle" /\ pc' # "idle") =>
          /\ (step'.posts # step.posts /\ step'.posts # <<>>) =>
                /\ AtEntries(pc) /\ pc' = pc /\ i' = i
                /\ items # <<>> /\ items' = Tail(items)
                /\ step.feed = feeds[i].url /\ step'.feed = step.feed
                /\ \E st \in PostAnswers :
                      step'.posts = Append(step.posts,
                          Post(IF pc = "backlog_playlist_items" THEN Head(items)
                               ELSE strip(OrEmpty(Head(items))), quality, st))
                /\ cycle'.fetched = cycle.fetched
          /\ cycle'.fetched # cycle.fetched =>
                /\ pc = "incr"
                /\ cycle'.fetched = Append(cycle.fetched, feeds[i].url)]_vars

\* C28: in each pass the feeds are gone through in the order of the
\* configuration, one at a time: the incremental fetches made so far are of
\* the feeds before the current one, in order; the next feed is started when
\* the entries of the current one are used up; every submission is of the
\* next entry of the current feed; and no step makes two requests.
C28_FeedsInSequence ==
    /\ [](PassOf(pc) = 2 =>
            cycle.fetched = [k \in 1..(IF pc = "incr" THEN i - 1 ELSE i) |-> feeds[k].url])
    /\ [](pc = "persist" => (i = Len(feeds) /\ cycle.fetched = AllFeedUrls))
    /\ PassStartsAtFirstFeed
    /\ OneFeedAfterAnother
    /\ OneRequestAtATime

\* C28 witness: in the backlog pass the first feed had its two submissions
\* accepted, then the listing of the second feed's playlist was made, and
\* its URLs are being gone through.
C28_Witness ==
    /\ pc = "backlog_playlist_items" /\ i = 2 /\ step.feed = FeedG
    /\ feeds[1].url = FeedF
    /\ CountOf(cycle.backlog_ok, FeedF) = 2
    /\ items # <<>> /\ Len(items) < Len(step.source)

\* A second case of C28: in the incremental pass the second feed's entries
\* are being gone through, after the fetch of the first feed and its own.
C28_WitnessIncremental ==
    /\ pc = "incr_items" /\ i = 2 /\ step.feed = FeedG
    /\ cycle.fetched = <<FeedF, FeedG>>
    /\ Len(step.posts) = 1 /\ items # <<>>

\* C29: when a cycle that passed the guard clauses has run to its end, the
\* stats in memory have one entry for each feed URL of the cycle and no
\* other, each with last_fetched at this cycle's time, and the backlog-done
\* set holds feed URLs of the cycle only; the final write, when it succeeds,
\* makes exactly this durable.
C29_StatsCoverConfiguredFeeds ==
    Returned =>
        LET cur == {feeds[k].url : k \in 1..Len(feeds)}
        IN /\ cur # {}
           /\ DOMAIN feed_stats = cur
           /\ \A u \in cur : feed_stats[u].last_fetched = now
           /\ backlog_done \subseteq cur
           /\ ended = "completed" =>
                 /\ store.feed_stats = feed_stats
                 /\ store.backlog_done = backlog_done

\* C29 witness: the entry was edited to keep g alone, without backlog
\* source; the next cycle loaded stats and markers of f and g, pruned, and
\* ended with stats for g only, fetched in this cycle, and no marker for f.
C29_Witness ==
    /\ pc = "idle" /\ ended = "completed" /\ now = 2
    /\ cycle.loaded = "ok" /\ cycle.pruned
    /\ DOMAIN doc0.feed_stats = {FeedF, FeedG} /\ FeedF \in doc0.backlog_done
    /\ Len(feeds) = 1 /\ feeds[1].url = FeedG /\ feeds[1].backlog = <<>>
    /\ DOMAIN store.feed_stats = {FeedG}
    /\ store.feed_stats[FeedG].last_fetched = 2
    /\ FeedF \notin store.backlog_done

\* A URL is POSTed only when it is not in the seen set, and it is in the set
\* once the POST has been made, whatever the answer.
SeenBeforePost ==
    [][(pc # "idle" /\ pc' # "idle" /\ step'.posts # step.posts /\ step'.posts # <<>>) =>
          LET l == step'.posts[Len(step'.posts)].url
          IN l \notin seen /\ l \in seen' /\ l \notin cycle.urls]_vars

\* C30: in one cycle no URL is POSTed twice: the URLs POSTed in a step are
\* all different, none was POSTed in an earlier step of the cycle, and every
\* URL POSTed in the cycle is in the seen set from its POST on.
C30_OncePerCycle ==
    /\ [](cycle.dup = {})
    /\ [](\A a, b \in 1..Len(step.posts) : step.posts[a].url = step.posts[b].url => a = b)
    /\ [](pc # "idle" => cycle.urls \subseteq seen)
    /\ SeenBeforePost

\* C30 witness: a cycle has ended in which the second feed listed one URL
\* twice and another URL that its playlist backlog had submitted; each was
\* POSTed once.
C30_Witness ==
    /\ Returned /\ quiet >= 1
    /\ cycle.fetched = <<FeedF, FeedG>> /\ FeedG \notin cycle.failed_fetch
    /\ LET ls == world.feed[FeedG].links
       IN /\ \E a, b \in 1..Len(ls) : a # b /\ ls[a] = ls[b] /\ ls[a] \in cycle.urls
                                        /\ ls[a] \notin cycle.backlog_urls
          /\ \E a \in 1..Len(ls) : ls[a] \in cycle.backlog_urls
    /\ cycle.dup = {}
    /\ \A v \in cycle.urls : posted[v] = 1

\* C31: in a cycle where Prune triggered, the seen set holds only the URLs
\* this cycle marked, so that an incremental step whose fetch succeeded ends
\* with every non-empty link of the feed POSTed in this cycle, whether or
\* not an earlier cycle POSTed it; the markers of the feeds that remain are
\* kept, and no backlog step runs for a feed the document had marked.
C31_PruneForgetsSeenKeepsMarkers ==
    (cycle.pruned /\ pc \notin {"idle", "load"}) =>
        /\ seen = cycle.urls
        /\ \A k \in 1..Len(feeds) :
              feeds[k].url \in doc0.backlog_done => feeds[k].url \in backlog_done
        /\ step.kind \in {"rss_backlog", "playlist_backlog"} =>
              step.feed \notin doc0.backlog_done
        /\ (step.kind = "incremental" /\ step.state = "done") =>
              NonEmptyLinks(step.source) \subseteq cycle.urls

\* C31 witness: both feeds had their cycle, g was removed from the entry and
\* f kept with a playlist as backlog source; the next cycle pruned, did not
\* run f's backlog again, and its incremental step has POSTed for the second
\* time the two URLs of f's feed, both in the document it loaded.
C31_Witness ==
    /\ pc = "persist" /\ cycle.pruned
    /\ Len(feeds) = 1 /\ feeds[1].url = FeedF /\ feeds[1].backlog = PlayP
    /\ FeedF \in doc0.backlog_done /\ FeedF \in backlog_done /\ runs[FeedF] = 1
    /\ doc0.urls = Videos
    /\ step.kind = "incremental" /\ step.state = "done" /\ Len(step.posts) = 2
    /\ cycle.backlog_urls = {}
    /\ \A v \in Videos : posted[v] = 2

StatusSetAtEndOnly ==
    [][(pc # "idle" /\ (pc' # "idle" \/ ended' = "raised")) =>
          coordinator' = coordinator]_vars

C33_RemovedDocumentStaysGone ==
    ~config.exists => (~stored /\ store = EmptyDoc)

\* What does hold: a cycle that starts after the removal returns at the
\* guard of line 133 and writes nothing.
C33_NoWriteByLaterCycle ==
    [][(~config.exists /\ pc = "idle") =>
          (store' = store /\ stored' = stored /\ pc' = "idle")]_vars

\* C34: once the entry is unloaded neither trigger is left, so no cycle
\* starts until the entry is set up again; and a first poll that starts has
\* waited the whole delay of the setup in force, so after a reload the cycles
\* that start are those the new setup scheduled.
C34_NoStartAfterUnload ==
    /\ [](~remove_metube_poll => first_poll_cancel = NoTimer)
    /\ [][in_flight' > in_flight => (remove_metube_poll /\ remove_metube_poll')]_vars
    /\ [][(first_poll_cancel' >= 0 /\ first_poll_cancel' # first_poll_cancel) =>
             IF remove_metube_poll
             THEN first_poll_cancel > 0 /\ first_poll_cancel' = first_poll_cancel - 1
             ELSE remove_metube_poll' /\ first_poll_cancel' = FirstPollDelay]_vars

\* The entry was set up, a cycle started, the entry was unloaded, and second
\* 0 of the hour arrives with no listener and no timer.
C34_Witness ==
    /\ ~remove_metube_poll
    /\ first_poll_cancel = NoTimer
    /\ hour_event
    /\ in_flight > 0

Submitted == flow_result # NoResult /\ user_input.submitted
Created == flow_result.type = "create_entry"
Connected == site.status \in {HttpOk, HttpMethodNotAllowed}
NameGiven == strip(OrEmpty(user_input.channel_name)) # <<>>
ChannelResolves == _resolve_youtube_channel_sync(site.info).ok

\* The outcome of a submitted form: an entry with one feed, whose backlog
\* source is there iff the box was ticked, or no entry and the form with one
\* of the three errors.
FlowOutcome ==
    /\ Created =>
          /\ config.exists
          /\ Len(config.options.rss_feeds) = 1
          /\ config.options.rss_feeds[1].url # <<>>
          /\ config.options.rss_feeds[1].backlog # <<>> <=> user_input.fetch_backlog = "on"
    /\ ~Created =>
          /\ config = NoEntry
          /\ flow_result.type = "form"
          /\ DOMAIN flow_result.errors = {"base"}
          /\ flow_result.errors["base"] \in {"invalid_url", "cannot_connect", "invalid_feed"}

\* C35: a submitted form creates an entry only when the MeTube URL it is to
\* hold is a valid one (http:// or https:// and a host), the connection test
\* is answered, a channel name is given and the channel resolves to an id;
\* otherwise nothing is created and the form comes back with one error; the
\* entry has one feed, with a backlog source iff the box was ticked.
C35_EntryOnlyForValidInput ==
    Submitted =>
        /\ Created => /\ UrlPattern(_normalize_url(user_input.metube_url))
                      /\ Connected /\ NameGiven /\ ChannelResolves
        /\ FlowOutcome

\* What does hold: the same with the validator's verdict in place of the
\* validity of the URL, and then an entry is created exactly in that case.
C35_EntryIffAcceptedInput ==
    /\ Submitted =>
        /\ Created <=> /\ _validate_metube_url(_normalize_url(user_input.metube_url))
                       /\ Connected /\ NameGiven /\ ChannelResolves
        /\ FlowOutcome
    /\ (flow_result # NoResult /\ ~user_input.submitted) =>
        /\ flow_result.type = "form" /\ DOMAIN flow_result.errors = {}
        /\ config = NoEntry

\* A form submitted with the box ticked has created an entry.
C35_WitnessCreated ==
    /\ Created
    /\ user_input.fetch_backlog = "on"
    /\ config.data.metube_url = HttpScheme \o <<"m">>
    /\ config.options.rss_feeds[1].backlog # <<>>

====
